---- MODULE Spec2Model ----
(***************************************************************************)
(* Product catalog: the products table, ProductRepository (query building,  *)
(* writes, store error classification) and ProductService (validation,      *)
(* SKU uniqueness rule, sample data), with the requests of concurrent       *)
(* clients interleaving at their store round trips.                         *)
(*                                                                          *)
(* Text values (sku, name, category, brand, search terms, sort keywords)    *)
(* are sequences of one-character strings, so trimming, case folding,       *)
(* substring matching and collation are computed. Prices are in cents and   *)
(* ratings in hundredths.                                                   *)
(***************************************************************************)
EXTENDS Integers, Sequences, FiniteSets, TLC

VARIABLES store, clock, clients

vars == <<store, clock, clients>>

(***************************************************************************)
(* Bounds of the model.                                                     *)
(***************************************************************************)
\* identifiers the store can hand out (rows that can exist)
MaxId == 3
\* rows the store holds at most when clients write
MaxRows == 2
\* concurrent clients
NumClients == 2
\* readings of the wall clock
MaxClock == 1
\* largest sample-data count requested
MaxCount == 2
\* largest page number requested
MaxPage == 3
\* largest page size requested
MaxLimit == 2

Ids == 1..MaxId
\* the identifiers the store assigns when clients write
StoreIds == 1..MaxRows
Clients == 1..NumClients

(***************************************************************************)
(* Text.                                                                    *)
(***************************************************************************)
LowerAlpha == <<"a","b","c","d","e","f","g","h","i","j","k","l","m",
                "n","o","p","q","r","s","t","u","v","w","x","y","z">>
UpperAlpha == <<"A","B","C","D","E","F","G","H","I","J","K","L","M",
                "N","O","P","Q","R","S","T","U","V","W","X","Y","Z">>
DigitChars == <<"0","1","2","3","4","5","6","7","8","9">>

\* the characters in code-point order (the part of ASCII the model uses)
CodePoints == <<" ", "&", "-">> \o DigitChars \o UpperAlpha \o <<"_">> \o LowerAlpha

IndexIn(seq, c) == IF \E i \in 1..Len(seq) : seq[i] = c
                   THEN CHOOSE i \in 1..Len(seq) : seq[i] = c
                   ELSE 0

\* String.prototype.toUpperCase / toLowerCase, per character
ToUpperChar(c) == IF IndexIn(LowerAlpha, c) > 0 THEN UpperAlpha[IndexIn(LowerAlpha, c)] ELSE c
ToLowerChar(c) == IF IndexIn(UpperAlpha, c) > 0 THEN LowerAlpha[IndexIn(UpperAlpha, c)] ELSE c
ToUpperCase(s) == [i \in 1..Len(s) |-> ToUpperChar(s[i])]
ToLowerCase(s) == [i \in 1..Len(s) |-> ToLowerChar(s[i])]

RECURSIVE TrimStart(_)
TrimStart(s) == IF s # <<>> /\ Head(s) = " " THEN TrimStart(Tail(s)) ELSE s
RECURSIVE TrimEnd(_)
TrimEnd(s) == IF s # <<>> /\ s[Len(s)] = " " THEN TrimEnd(SubSeq(s, 1, Len(s) - 1)) ELSE s
\* Joi string().trim() under convert: leading and trailing blanks removed
Trim(s) == TrimEnd(TrimStart(s))

\* t occurs in s as a contiguous run
Contains(s, t) == \E k \in 0..(Len(s) - Len(t)) : SubSeq(s, k + 1, k + Len(t)) = t

\* SQL NULL in a text column
NullText == <<"NULL">>

\* column ILIKE '%term%': case-insensitive containment, never true of NULL
ILike(col, term) == col # NullText /\ Contains(ToLowerCase(col), ToLowerCase(term))

\* collation of text columns: lexicographic by code point, a strict total order
RECURSIVE TextLess(_, _)
TextLess(a, b) ==
    IF b = <<>> THEN FALSE
    ELSE IF a = <<>> THEN TRUE
    ELSE IF Head(a) = Head(b) THEN TextLess(Tail(a), Tail(b))
    ELSE IndexIn(CodePoints, Head(a)) < IndexIn(CodePoints, Head(b))

\* Number.prototype.toString of a non-negative integer
RECURSIVE NumberToString(_)
NumberToString(n) == IF n < 10 THEN <<DigitChars[n + 1]>>
                     ELSE NumberToString(n \div 10) \o <<DigitChars[(n % 10) + 1]>>

\* String.prototype.padStart(width, "0")
RECURSIVE PadStart(_, _)
PadStart(s, width) == IF Len(s) >= width THEN s ELSE PadStart(<<"0">> \o s, width)

Min(a, b) == IF a < b THEN a ELSE b
Max(a, b) == IF a > b THEN a ELSE b

\* a JavaScript object is a record holding only the properties that are set
Has(obj, key) == key \in DOMAIN obj
Get(obj, key, default) == IF key \in DOMAIN obj THEN obj[key] ELSE default

(***************************************************************************)
(* Text values used as inputs.                                              *)
(***************************************************************************)
Tools == <<"T","o","o","l","s">>
Toys == <<"T","o","y","s">>
Acme == <<"A","c","m","e">>
Bolt == <<"B","o","l","t">>
Widget == <<"W","i","d","g","e","t">>
Gadget == <<"G","a","d","g","e","t">>

\* the i-th catalogue number, "SK-i"
SkuOf(i) == <<"S","K","-">> \o NumberToString(i)

(***************************************************************************)
(* The products table. store maps the identifier of every stored row to    *)
(* its columns (entities/Product.js). Identifiers are the store's random    *)
(* UUIDs: their order is unrelated to the order of insertion.               *)
(***************************************************************************)
Columns == {"name", "description", "category", "brand", "price", "stock_quantity",
            "sku", "image_url", "is_active", "rating", "review_count",
            "created_at", "updated_at"}

\* entities/Product.js ProductModel constructor: the row with its identifier
ProductModel(st, id) == [k \in Columns \cup {"id"} |-> IF k = "id" THEN id ELSE st[id][k]]

\* ProductRepository._toProductModels over the identifiers a query returned
ToProductModels(st, ids) == [i \in 1..Len(ids) |-> ProductModel(st, ids[i])]

(***************************************************************************)
(* ProductRepository.findWithFilters: the query builder.                    *)
(***************************************************************************)
\* part_007:137-145
AllowedSortFields == {"name", "price", "rating", "created_at", "category", "brand",
                      "stock_quantity"}
TextColumns == {"name", "category", "brand", "sku", "description", "image_url"}

Asc == <<"A","S","C">>
Desc == <<"D","E","S","C">>

\* JavaScript truthiness of a text value that may be absent
TruthyText(obj, key) == Has(obj, key) /\ obj[key] # <<>>

WhereAnyStatus(row, filters) ==
    /\ TruthyText(filters, "category") => row.category = filters.category
    /\ TruthyText(filters, "brand") => row.brand = filters.brand
    /\ Has(filters, "min_price") => row.price >= filters.min_price
    /\ Has(filters, "max_price") => row.price <= filters.max_price
    /\ TruthyText(filters, "search") =>
          \/ ILike(row.name, filters.search)
          \/ ILike(row.description, filters.search)
          \/ ILike(row.brand, filters.search)

\* the WHERE clause: is_active = :is_active AND the filters that are set
Where(row, filters) ==
    /\ row.is_active = Get(filters, "is_active", TRUE)
    /\ TruthyText(filters, "category") => row.category = filters.category
    /\ TruthyText(filters, "brand") => row.brand = filters.brand
    /\ Has(filters, "min_price") => row.price >= filters.min_price
    /\ Has(filters, "max_price") => row.price <= filters.max_price
    /\ TruthyText(filters, "search") =>
          \/ ILike(row.name, filters.search)
          \/ ILike(row.description, filters.search)
          \/ ILike(row.brand, filters.search)

\* identifiers of the rows the WHERE clause selects
Selected(st, filters) == {id \in DOMAIN st : Where(st[id], filters)}

\* allowedSortFields.includes(sort_by) ? sort_by : "created_at"
SortField(filters) ==
    LET sort_by == Get(filters, "sort_by", "created_at")
    IN IF sort_by \in AllowedSortFields THEN sort_by ELSE "created_at"

\* sort_order.toUpperCase() === "ASC" ? "ASC" : "DESC"
SortDirection(filters) ==
    IF ToUpperCase(Get(filters, "sort_order", Desc)) = Asc THEN "ASC" ELSE "DESC"

\* the ORDER BY clause: the primary key, then product.id ASC unless it is the key
OrderByNoTiebreak(filters) == <<[column |-> SortField(filters), direction |-> SortDirection(filters)]>>
OrderByTiebreakFollowsDirection(filters) ==
    <<[column |-> SortField(filters), direction |-> SortDirection(filters)],
      [column |-> "id", direction |-> SortDirection(filters)]>>
OrderBy(filters) ==
    <<[column |-> SortField(filters), direction |-> SortDirection(filters)]>>
    \o (IF SortField(filters) # "id" THEN <<[column |-> "id", direction |-> "ASC"]>> ELSE <<>>)

\* a < b in the column's type: text by collation, numbers and timestamps by value
ColumnLess(column, a, b) == IF column \in TextColumns THEN TextLess(a, b) ELSE a < b

\* row a sorts strictly before row b under the ORDER BY clause
RECURSIVE SortsBefore(_, _, _)
SortsBefore(a, b, orderBy) ==
    IF orderBy = <<>> THEN FALSE
    ELSE LET key == Head(orderBy)
             x == a[key.column]
             y == b[key.column]
         IN IF x = y THEN SortsBefore(a, b, Tail(orderBy))
            ELSE IF key.direction = "ASC" THEN ColumnLess(key.column, x, y)
            ELSE ColumnLess(key.column, y, x)

\* Every order in which the store may return the selected rows: any sequence
\* with no pair out of order. Rows the ORDER BY clause does not separate may
\* come in either order.
RECURSIVE Orderings(_, _, _)
Orderings(st, ids, orderBy) ==
    IF ids = {} THEN {<<>>}
    ELSE UNION { { <<m>> \o rest : rest \in Orderings(st, ids \ {m}, orderBy) } :
                 m \in { x \in ids : \A y \in ids :
                            ~SortsBefore(ProductModel(st, y), ProductModel(st, x), orderBy) } }

\* const offset = (page - 1) * limit
OffsetSkipsPage(page, limit) == page * limit
Offset(page, limit) == (page - 1) * limit

\* skip(offset).take(limit) of an ordering
Window(ordering, offset, limit) ==
    SubSeq(ordering, offset + 1, Min(offset + limit, Len(ordering)))

\* Math.ceil(total / limit)
Ceil(total, limit) == (total + limit - 1) \div limit

\* the COUNT half of getManyAndCount: the selected rows, before skip and take
TotalIsPageLength(st, filters) ==
    Len(Window(CHOOSE o \in Orderings(st, Selected(st, filters), OrderBy(filters)) : TRUE,
               Offset(Get(filters, "page", 1), Get(filters, "limit", 20)),
               Get(filters, "limit", 20)))
Total(st, filters) == Cardinality(Selected(st, filters))

\* pagination metadata
Pagination(page, limit, total) ==
    [current_page |-> page,
     total_pages |-> Ceil(total, limit),
     total_items |-> total,
     items_per_page |-> limit,
     has_next_page |-> page < Ceil(total, limit),
     has_previous_page |-> page > 1]

\* Every result findWithFilters(filters) can return on store st.
FindWithFilters(st, filters) ==
    LET page == Get(filters, "page", 1)
        limit == Get(filters, "limit", 20)
    IN { [products |-> ToProductModels(st, Window(o, Offset(page, limit), limit)),
          pagination |-> Pagination(page, limit, Total(st, filters))] :
         o \in Orderings(st, Selected(st, filters), OrderBy(filters)) }

(***************************************************************************)
(* Clients. clients[c] is what client c is doing: the operation it called,  *)
(* where the call stands (pc), its arguments and, once it has returned,     *)
(* what it returned (ret).                                                  *)
(***************************************************************************)
Idle == [op |-> "idle", pc |-> "idle"]

\* the client takes its answer and is free for the next call
Return(c) ==
    /\ clients[c].pc = "done"
    /\ clients' = [clients EXCEPT ![c] = Idle]
    /\ UNCHANGED <<store, clock>>

(***************************************************************************)
(* Reading a store that nobody writes: rows drawn from a small catalogue,   *)
(* one reader calling ProductRepository.findWithFilters.                    *)
(***************************************************************************)
CatalogueRows ==
    { [name |-> Widget, description |-> NullText, category |-> Tools, brand |-> Acme,
       price |-> 500, stock_quantity |-> 0, image_url |-> NullText, is_active |-> TRUE,
       rating |-> 0, review_count |-> 0, created_at |-> 0, updated_at |-> 0],
      [name |-> Gadget, description |-> Widget, category |-> Tools, brand |-> Bolt,
       price |-> 1000, stock_quantity |-> 5, image_url |-> NullText, is_active |-> TRUE,
       rating |-> 450, review_count |-> 2, created_at |-> 1, updated_at |-> 1],
      [name |-> Widget, description |-> NullText, category |-> Toys, brand |-> Acme,
       price |-> 500, stock_quantity |-> 0, image_url |-> NullText, is_active |-> FALSE,
       rating |-> 0, review_count |-> 0, created_at |-> 0, updated_at |-> 1] }

\* a catalogue row stored under identifier id; each row has its own sku
Stocked(row, id) == [k \in Columns |-> IF k = "sku" THEN SkuOf(id) ELSE row[k]]

\* the stores with rows under some of the identifiers
CatalogueStores ==
    UNION { { [id \in present |-> Stocked(pick[id], id)] : pick \in [present -> CatalogueRows] } :
            present \in SUBSET Ids }

\* the client that reads
Reader == CHOOSE c \in Clients : \A d \in Clients : c <= d

\* an optional property: no value, or one of values
Optional(values) == {{}} \cup {{v} : v \in values}
\* the object with property key when a value is given, the empty object otherwise
Prop(key, opt) == [k \in (IF opt = {} THEN {} ELSE {key}) |-> CHOOSE v \in opt : TRUE]

\* filter objects handed to findWithFilters
RepoFilters ==
    { Prop("page", page) @@ Prop("limit", limit) @@ Prop("category", category)
      @@ Prop("is_active", is_active) @@ Prop("sort_by", sort_by)
      @@ Prop("sort_order", sort_order) :
        page \in Optional(1..MaxPage), limit \in Optional(1..MaxLimit),
        category \in Optional({Tools}), is_active \in Optional({FALSE}),
        sort_by \in Optional(AllowedSortFields \cup {"id"}),
        sort_order \in Optional({<<"a","s","c">>}) }

\* findWithFilters(filters): one query returning the page and the count
FindWithFiltersCall(c, filters) ==
    /\ clients[c] = Idle
    /\ \E result \in FindWithFilters(store, filters) :
          clients' = [clients EXCEPT ![c] =
              [op |-> "findWithFilters", pc |-> "done", filters |-> filters, ret |-> result]]
    /\ UNCHANGED <<store, clock>>

\* a caller starts reading a listing page by page
BrowseStart(c, filters) ==
    /\ clients[c] = Idle
    /\ ~Has(filters, "page")
    /\ clients' = [clients EXCEPT ![c] =
          [op |-> "browse", pc |-> "paging", filters |-> filters, pages |-> <<>>]]
    /\ UNCHANGED <<store, clock>>

\* the caller asks findWithFilters for the next page, up to total_pages
BrowseNext(c) ==
    /\ clients[c].op = "browse" /\ clients[c].pc = "paging"
    /\ LET page == Len(clients[c].pages) + 1
       IN \E result \in FindWithFilters(store, [page |-> page] @@ clients[c].filters) :
             clients' = [clients EXCEPT ![c].pages = Append(@, result),
                                        ![c].pc = IF page >= result.pagination.total_pages
                                                  THEN "done" ELSE "paging"]
    /\ UNCHANGED <<store, clock>>

InitQuery ==
    /\ store \in CatalogueStores
    /\ clock = MaxClock
    /\ clients = [c \in Clients |-> Idle]

NextQuery ==
    \/ \E filters \in RepoFilters : FindWithFiltersCall(Reader, filters)
    \/ \E filters \in RepoFilters : BrowseStart(Reader, filters)
    \/ BrowseNext(Reader)
    \/ Return(Reader)

SpecQuery == InitQuery /\ [][NextQuery]_vars

(***************************************************************************)
(* Validation (Joi, as ProductService calls it: abortEarly false,           *)
(* stripUnknown true). A schema is the sequence of its keys' rules; an      *)
(* input's values have the type of their key. The outcome is the list of    *)
(* rule violations, in schema order, and the converted value: known keys    *)
(* only, text trimmed, defaults filled in.                                  *)
(***************************************************************************)
\* the value of a key after Joi's conversion
Converted(rule, v) == IF rule.type = "string" /\ Get(rule, "trim", FALSE) THEN Trim(v) ELSE v

\* the violations of one key's rules by a value that is present
RuleViolations(rule, v) ==
    LET detail(type) == <<[field |-> rule.key, type |-> type, value |-> v]>>
        when(cond, type) == IF cond THEN detail(type) ELSE <<>>
    IN IF rule.type = "string"
       THEN IF v = <<>>
            THEN when(~Get(rule, "allowEmpty", FALSE), "string.empty")
            ELSE when(Has(rule, "valid") /\ v \notin Get(rule, "valid", {}), "any.only")
                 \o when(Has(rule, "min") /\ Len(v) < Get(rule, "min", 0), "string.min")
                 \o when(Has(rule, "max") /\ Len(v) > Get(rule, "max", 0), "string.max")
       ELSE IF rule.type = "number"
       THEN when(Get(rule, "positive", FALSE) /\ v <= 0, "number.positive")
            \o when(Has(rule, "min") /\ v < Get(rule, "min", 0), "number.min")
            \o when(Has(rule, "max") /\ v > Get(rule, "max", 0), "number.max")
       ELSE IF rule.type = "keyword"
       THEN when(v \notin rule.valid, "any.only")
       ELSE <<>>

\* the violations of a whole object, key by key in schema order
RECURSIVE ObjectViolations(_, _)
ObjectViolations(schema, input) ==
    IF schema = <<>> THEN <<>>
    ELSE LET rule == Head(schema)
         IN (IF Has(input, rule.key)
             THEN RuleViolations(rule, Converted(rule, input[rule.key]))
             ELSE IF Get(rule, "required", FALSE)
                  THEN <<[field |-> rule.key, type |-> "any.required"]>>
                  ELSE <<>>)
            \o ObjectViolations(Tail(schema), input)

RuleOf(schema, key) == schema[CHOOSE i \in 1..Len(schema) : schema[i].key = key]

\* the converted object: unknown keys stripped, defaults applied
ObjectValue(schema, input) ==
    LET keys == {schema[i].key : i \in 1..Len(schema)}
    IN [k \in {k \in keys : Has(input, k) \/ Has(RuleOf(schema, k), "default")} |->
           IF Has(input, k) THEN Converted(RuleOf(schema, k), input[k])
           ELSE RuleOf(schema, k).default]

\* a Joi schema is an object with a validate method; Joi.object(keys) holds the
\* rules of its keys
JoiObject(rules) == [validate |-> TRUE, rules |-> rules]

\* schema.validate(input, options): {error, value}
Validate(schema, input) ==
    [details |-> ObjectViolations(schema.rules, input),
     value |-> ObjectValue(schema.rules, input)]

\* limits the schemas state (validations/service.schemas.js), in the model's units
LimitMax == 100
NameMin == 2
NameMax == 255
CategoryMin == 2
TextMax100 == 100
SkuMin == 3
DescriptionMax == 2000
ImageUrlMax == 500
SearchMax == 255
PriceMaxCents == 99999999
RatingMaxHundredths == 500
CountMax == 1000
CountDefault == 1000
LimitDefault == 20
DefaultMaxPriceCents == 100000

\* serviceValidationSchemas.filterParams
FilterParamsSchema == JoiObject(
    << [key |-> "page", type |-> "number", min |-> 1, default |-> 1],
       [key |-> "limit", type |-> "number", min |-> 1, max |-> LimitMax, default |-> LimitDefault],
       [key |-> "category", type |-> "string", trim |-> TRUE, max |-> TextMax100],
       [key |-> "brand", type |-> "string", trim |-> TRUE, max |-> TextMax100],
       [key |-> "min_price", type |-> "number", min |-> 0],
       [key |-> "max_price", type |-> "number", min |-> 0],
       [key |-> "search", type |-> "string", trim |-> TRUE, min |-> 1, max |-> SearchMax],
       [key |-> "sort_by", type |-> "keyword", valid |-> AllowedSortFields, default |-> "created_at"],
       [key |-> "sort_order", type |-> "string",
        valid |-> {<<"A","S","C">>, <<"D","E","S","C">>, <<"a","s","c">>, <<"d","e","s","c">>},
        default |-> <<"D","E","S","C">>],
       [key |-> "is_active", type |-> "boolean", default |-> TRUE] >>)

CreateProductSchemaUnranged == JoiObject(
    << [key |-> "name", type |-> "string", trim |-> TRUE, min |-> NameMin, max |-> NameMax,
        required |-> TRUE],
       [key |-> "description", type |-> "string", trim |-> TRUE, max |-> DescriptionMax,
        allowEmpty |-> TRUE],
       [key |-> "category", type |-> "string", trim |-> TRUE, min |-> CategoryMin,
        max |-> TextMax100, required |-> TRUE],
       [key |-> "brand", type |-> "string", trim |-> TRUE, min |-> 1, max |-> TextMax100,
        required |-> TRUE],
       [key |-> "price", type |-> "number", required |-> TRUE],
       [key |-> "stock_quantity", type |-> "number", default |-> 0],
       [key |-> "sku", type |-> "string", trim |-> TRUE, min |-> SkuMin, max |-> TextMax100,
        required |-> TRUE],
       [key |-> "image_url", type |-> "string", max |-> ImageUrlMax, allowEmpty |-> TRUE],
       [key |-> "rating", type |-> "number", default |-> 0],
       [key |-> "review_count", type |-> "number", default |-> 0],
       [key |-> "is_active", type |-> "boolean", default |-> TRUE] >>)

\* serviceValidationSchemas.createProduct
CreateProductSchema == JoiObject(
    << [key |-> "name", type |-> "string", trim |-> TRUE, min |-> NameMin, max |-> NameMax,
        required |-> TRUE],
       [key |-> "description", type |-> "string", trim |-> TRUE, max |-> DescriptionMax,
        allowEmpty |-> TRUE],
       [key |-> "category", type |-> "string", trim |-> TRUE, min |-> CategoryMin,
        max |-> TextMax100, required |-> TRUE],
       [key |-> "brand", type |-> "string", trim |-> TRUE, min |-> 1, max |-> TextMax100,
        required |-> TRUE],
       [key |-> "price", type |-> "number", positive |-> TRUE, max |-> PriceMaxCents,
        required |-> TRUE],
       [key |-> "stock_quantity", type |-> "number", min |-> 0, default |-> 0],
       [key |-> "sku", type |-> "string", trim |-> TRUE, min |-> SkuMin, max |-> TextMax100,
        required |-> TRUE],
       [key |-> "image_url", type |-> "string", max |-> ImageUrlMax, allowEmpty |-> TRUE],
       [key |-> "rating", type |-> "number", min |-> 0, max |-> RatingMaxHundredths,
        default |-> 0],
       [key |-> "review_count", type |-> "number", min |-> 0, default |-> 0],
       [key |-> "is_active", type |-> "boolean", default |-> TRUE] >>)

\* serviceValidationSchemas.generateSampleData
GenerateSampleDataSchema == JoiObject(
    << [key |-> "count", type |-> "number", min |-> 1, max |-> CountMax,
        default |-> CountDefault] >>)

\* serviceValidationSchemas.productId: a Joi string schema
ProductIdSchema == [validate |-> TRUE, type |-> "string", uuid |-> TRUE]

(***************************************************************************)
(* Errors (errors/*.js) and what a call hands back.                         *)
(***************************************************************************)
EmptyObject == [k \in {} |-> TRUE]

ValidationError(metadata) ==
    [name |-> "ValidationError", code |-> "UNPROCESSABLE_ENTITY", statusCode |-> 422,
     message |-> "Validation failed", metadata |-> metadata]
BadRequestError(message) ==
    [name |-> "BadRequestError", code |-> "BAD_REQUEST", statusCode |-> 400,
     message |-> message, metadata |-> EmptyObject]
NotFoundError(message) ==
    [name |-> "NotFoundError", code |-> "NOT_FOUND", statusCode |-> 404,
     message |-> message, metadata |-> EmptyObject]
InternalServerError(message) ==
    [name |-> "InternalServerError", code |-> "INTERNAL_SERVER_ERROR", statusCode |-> 500,
     message |-> message, metadata |-> EmptyObject]
DatabaseError(message, metadata) ==
    [name |-> "DatabaseError", code |-> "DATABASE_ERROR", statusCode |-> 500,
     message |-> message, metadata |-> metadata]

\* error instanceof BaseError
BaseErrorNames == {"ValidationError", "BadRequestError", "NotFoundError",
                   "InternalServerError", "DatabaseError", "BaseError"}

Returned(value) == [ok |-> TRUE, value |-> value]
Thrown(error) == [ok |-> FALSE, error |-> error]

\* ProductModel.toJSON
ToJSON(model) ==
    [k \in DOMAIN model \cup {"in_stock"} |->
        IF k = "in_stock" THEN model.stock_quantity > 0 ELSE model[k]]

(***************************************************************************)
(* ProductService.getProducts on a store that nobody writes.                *)
(***************************************************************************)
\* every outcome getProducts(filters) can have on store st
GetProducts(st, filters) ==
    LET checked == Validate(FilterParamsSchema, filters)
    IN IF checked.details # <<>>
       THEN {Thrown(ValidationError(EmptyObject))}
       ELSE { Returned([products |-> [i \in 1..Len(result.products) |->
                                          ToJSON(result.products[i])],
                        pagination |-> result.pagination]) :
              result \in FindWithFilters(st, checked.value) }

\* filter objects handed to getProducts: the valid ones, and some it rejects
ListFilters ==
    { Prop("page", page) @@ Prop("limit", limit) @@ Prop("category", category)
      @@ Prop("brand", brand) @@ Prop("min_price", min_price)
      @@ Prop("max_price", max_price) @@ Prop("search", search)
      @@ Prop("is_active", is_active) @@ Prop("sort_by", sort_by) :
        page \in Optional({2}), limit \in Optional({1}),
        category \in Optional({<<" ">> \o Tools}), brand \in Optional({Acme}),
        min_price \in Optional({1000}), max_price \in Optional({500}),
        search \in Optional({<<"W","I","D">>}), is_active \in Optional({FALSE}),
        sort_by \in Optional({"price"}) }
    \cup { [page |-> 0], [limit |-> LimitMax + 1], [sort_by |-> "id"], [category |-> <<" ">>],
           [sort_order |-> <<"u","p">>], [min_price |-> 0 - 1] }

GetProductsCall(c, filters) ==
    /\ clients[c] = Idle
    /\ \E outcome \in GetProducts(store, filters) :
          clients' = [clients EXCEPT ![c] =
              [op |-> "getProducts", pc |-> "done", filters |-> filters,
               calls |-> 1, ret |-> outcome]]
    /\ UNCHANGED <<store, clock>>

\* the same client calls getProducts once more with the same filters
GetProductsAgain(c) ==
    /\ clients[c].op = "getProducts" /\ clients[c].pc = "done" /\ clients[c].calls = 1
    /\ \E outcome \in GetProducts(store, clients[c].filters) :
          clients' = [clients EXCEPT ![c] =
              [op |-> "getProducts", pc |-> "done", filters |-> clients[c].filters,
               calls |-> 2, first |-> clients[c].ret, ret |-> outcome]]
    /\ UNCHANGED <<store, clock>>

NextList ==
    \/ \E filters \in ListFilters : GetProductsCall(Reader, filters)
    \/ GetProductsAgain(Reader)
    \/ Return(Reader)

SpecList == InitQuery /\ [][NextList]_vars

(***************************************************************************)
(* The store's writes. The table's constraints are the migration's          *)
(* (CreateProductTable1703001000000.up) and the entity's.                    *)
(***************************************************************************)
\* a missing object: null
Null == [isNull |-> TRUE]

\* CONSTRAINT "UQ_products_sku" UNIQUE ("sku"): may row id hold sku?
UQ_products_sku_Dropped(st, id, sku) == TRUE
UQ_products_sku(st, id, sku) == \A other \in DOMAIN st \ {id} : st[other].sku # sku

\* the CHK_products_* constraints
Checks(row) ==
    /\ row.price >= 0
    /\ row.stock_quantity >= 0
    /\ row.rating >= 0 /\ row.rating <= RatingMaxHundredths
    /\ row.review_count >= 0

\* what the driver throws when a statement breaks a constraint
UniqueViolation ==
    [name |-> "QueryFailedError", code |-> "23505",
     message |-> "duplicate key value violates unique constraint"]
CheckViolation ==
    [name |-> "QueryFailedError", code |-> "23514",
     message |-> "new row violates check constraint"]

\* the row INSERT stores for entity data at time now: column defaults for
\* what the data leaves out, created_at and updated_at set by the store
NewRow(data, now) ==
    [name |-> data.name,
     description |-> Get(data, "description", NullText),
     category |-> data.category,
     brand |-> data.brand,
     price |-> data.price,
     stock_quantity |-> Get(data, "stock_quantity", 0),
     sku |-> data.sku,
     image_url |-> Get(data, "image_url", NullText),
     is_active |-> Get(data, "is_active", TRUE),
     rating |-> Get(data, "rating", 0),
     review_count |-> Get(data, "review_count", 0),
     created_at |-> now,
     updated_at |-> now]

\* the table after INSERT of row under identifier id
InsertReactivating(st, id, row) ==
    [j \in DOMAIN st \cup {id} |->
        IF j = id THEN row ELSE [k \in DOMAIN st[j] |-> IF k = "is_active" THEN TRUE ELSE st[j][k]]]
InsertIntoEmptied(st, id, row) == [j \in {id} |-> row]
Insert(st, id, row) == [j \in DOMAIN st \cup {id} |-> IF j = id THEN row ELSE st[j]]

\* the row after UPDATE ... SET of the columns of a patch
Patched(row, patch) == [k \in Columns |-> IF Has(patch, k) THEN patch[k] ELSE row[k]]

\* ProductRepository._handleDatabaseError: the DatabaseError thrown for a
\* driver error in an operation
HandleDatabaseErrorGeneric(error, operation, context) ==
    DatabaseError("Database operation failed: " \o operation,
                  [operation |-> operation, context |-> context,
                   originalError |-> Get(error, "message", ""),
                   errorCode |-> Get(error, "code", "UNKNOWN")])
HandleDatabaseError(error, operation, context) ==
    LET errorCode == Get(error, "code", "undefined")
        errorMessage == Get(error, "message", "")
        classified(message, constraint) ==
            DatabaseError(message,
                          [operation |-> operation, context |-> context,
                           constraint |-> constraint, originalError |-> errorMessage,
                           errorCode |-> errorCode])
    IN IF \/ error.name \in {"ConnectionNotFoundError", "CannotConnectToDatabase"}
          \/ errorCode \in {"ECONNREFUSED", "ENOTFOUND"}
       THEN DatabaseError("Database connection failed",
                          [operation |-> operation, context |-> context,
                           originalError |-> errorMessage, errorCode |-> errorCode])
       ELSE IF errorCode = "23505"
       THEN classified("Unique constraint violation", "unique")
       ELSE IF errorCode = "23503"
       THEN classified("Foreign key constraint violation", "foreign_key")
       ELSE IF errorCode = "23502"
       THEN classified("Not null constraint violation", "not_null")
       ELSE DatabaseError("Database operation failed: " \o operation,
                          [operation |-> operation, context |-> context,
                           originalError |-> errorMessage,
                           errorCode |-> Get(error, "code", "UNKNOWN")])

\* ProductRepository.findById: the active row with this identifier, or null
FindByIdAnyStatus(st, id) == IF id \in DOMAIN st THEN ProductModel(st, id) ELSE Null
FindById(st, id) ==
    IF id \in DOMAIN st /\ st[id].is_active THEN ProductModel(st, id) ELSE Null

\* no identifier: the excludeId isSkuExists is called without
NoId == 0

\* ProductRepository.isSkuExists: is there a row, active or not, with this sku
\* (other than the row excludeId, when one is given)?
IsSkuExistsAmongActive(st, sku, excludeId) ==
    \E id \in DOMAIN st : st[id].sku = sku /\ st[id].is_active
                          /\ (excludeId # NoId => id # excludeId)
IsSkuExists(st, sku, excludeId) ==
    \E id \in DOMAIN st : st[id].sku = sku /\ (excludeId # NoId => id # excludeId)

\* the texts of a set in ascending order (ORDER BY ... ASC over DISTINCT values)
RECURSIVE SortedTexts(_)
SortedTexts(texts) ==
    IF texts = {} THEN <<>>
    ELSE LET first == CHOOSE t \in texts : \A u \in texts \ {t} : TextLess(t, u)
         IN <<first>> \o SortedTexts(texts \ {first})

\* ProductRepository.getFilterOptions: the three queries over the active rows
GetFilterOptions(st) ==
    LET active == {id \in DOMAIN st : st[id].is_active}
        prices == {st[id].price : id \in active}
    IN [categories |-> SortedTexts({st[id].category : id \in active}),
        brands |-> SortedTexts({st[id].brand : id \in active}),
        price_range |->
            [min_price |-> IF prices = {} THEN 0
                           ELSE CHOOSE p \in prices : \A q \in prices : p <= q,
             max_price |-> IF prices = {} THEN DefaultMaxPriceCents
                           ELSE CHOOSE p \in prices : \A q \in prices : p >= q]]

(***************************************************************************)
(* ProductService: validation and error handling shared by its operations.  *)
(***************************************************************************)
\* what a call of a value that is not a function throws
TypeError == [name |-> "TypeError", message |-> "schema.validate is not a function"]

\* errorDetails: field, message and value of every violation; a message is
\* named by the rule it reports
ErrorDetails(details) ==
    [i \in 1..Len(details) |->
        [field |-> details[i].field, message |-> details[i].type]
        @@ (IF Has(details[i], "value") THEN [value |-> details[i].value] ELSE EmptyObject)]

\* ProductService._validateData(data, schema): the validated value, or what
\* it throws
ValidateData(data, schema) ==
    IF ~Has(schema, "validate") THEN Thrown(TypeError)
    ELSE LET checked == Validate(schema, data)
         IN IF checked.details # <<>>
            THEN Thrown(ValidationError([details |-> ErrorDetails(checked.details)]))
            ELSE Returned(checked.value)

\* the catch block of every operation: a BaseError goes on as it is, anything
\* else becomes an InternalServerError with the operation's message
CaughtRethrowsAll(error, message) == error

Caught(error, message) ==
    IF error.name \in BaseErrorNames THEN error ELSE InternalServerError(message)

(***************************************************************************)
(* ProductService.createProduct: two store round trips, the proactive       *)
(* isSkuExists query and the INSERT, with other clients' steps in between.  *)
(***************************************************************************)
\* the entity repo.save hands back: the data with the generated columns
SavedEntity(data, id, now) ==
    [id |-> id, created_at |-> now, updated_at |-> now] @@ data

\* the driver error of INSERT of a row into st, if any
InsertError(st, row) ==
    IF ~Checks(row) THEN <<CheckViolation>>
    ELSE IF ~UQ_products_sku(st, NoId, row.sku) THEN <<UniqueViolation>>
    ELSE <<>>

\* createProduct(productData) up to the answer of isSkuExists
CreateProductCall(c, productData) ==
    /\ clients[c] = Idle
    /\ LET validated == ValidateData(productData, CreateProductSchema)
           call == [op |-> "createProduct", arg |-> productData]
           throw(error) == [pc |-> "done",
                            ret |-> Thrown(Caught(error, "Error creating product"))] @@ call
       IN clients' = [clients EXCEPT ![c] =
              IF ~validated.ok THEN throw(validated.error)
              ELSE IF IsSkuExists(store, validated.value.sku, NoId)
              THEN throw(BadRequestError("SKU already exists"))
              ELSE [pc |-> "create", data |-> validated.value] @@ call]
    /\ UNCHANGED <<store, clock>>

\* productRepository.create(validatedData) and the return of createProduct
CreateProductSave(c) ==
    /\ clients[c].op = "createProduct" /\ clients[c].pc = "create"
    /\ LET data == clients[c].data
           row == NewRow(data, clock)
           failed == InsertError(store, row)
           call == [op |-> "createProduct", pc |-> "done", arg |-> clients[c].arg]
       IN IF failed # <<>>
          THEN /\ clients' = [clients EXCEPT ![c] =
                      [ret |-> Thrown(Caught(
                           HandleDatabaseError(failed[1], "create",
                                               [sku |-> data.sku, name |-> data.name]),
                           "Error creating product"))] @@ call]
               /\ UNCHANGED store
          ELSE \E id \in StoreIds \ DOMAIN store :
                  /\ store' = Insert(store, id, row)
                  /\ clients' = [clients EXCEPT ![c] =
                         [ret |-> Returned(ToJSON(SavedEntity(data, id, clock)))] @@ call]
    /\ UNCHANGED clock

\* product data handed to createProduct
CreateInputs ==
    LET base == [name |-> Widget, category |-> Tools, brand |-> Acme, price |-> 999]
    IN { base @@ [sku |-> sku] @@ Prop("is_active", is_active) :
           sku \in {SkuOf(1)}, is_active \in {{}} }
       \cup { base @@ [sku |-> <<" ">> \o SkuOf(1)],
              [name |-> <<"W">>, category |-> Tools, brand |-> Acme, price |-> 0] }

(***************************************************************************)
(* ProductService.getProductById, updateProduct, deleteProduct. Each starts *)
(* by validating its id against { id: serviceValidationSchemas.productId }, *)
(* an object literal and no Joi schema: _validateData throws on             *)
(* schema.validate, the catch block turns that into an InternalServerError, *)
(* and the steps after the validation are never reached.                    *)
(***************************************************************************)
\* this._validateData({ id }, { id: serviceValidationSchemas.productId })
ValidateId(id) == ValidateData([id |-> id], [id |-> ProductIdSchema])

GetProductByIdCall(c, id) ==
    /\ clients[c] = Idle
    /\ LET validated == ValidateId(id)
       IN /\ ~validated.ok
          /\ clients' = [clients EXCEPT ![c] =
                 [op |-> "getProductById", pc |-> "done", id |-> id,
                  ret |-> Thrown(Caught(validated.error, "Error getting product by ID"))]]
    /\ UNCHANGED <<store, clock>>

UpdateProductCall(c, id, updateData) ==
    /\ clients[c] = Idle
    /\ LET validated == ValidateId(id)
       IN /\ ~validated.ok
          /\ clients' = [clients EXCEPT ![c] =
                 [op |-> "updateProduct", pc |-> "done", id |-> id, arg |-> updateData,
                  ret |-> Thrown(Caught(validated.error, "Error updating product"))]]
    /\ UNCHANGED <<store, clock>>

DeleteProductCall(c, id) ==
    /\ clients[c] = Idle
    /\ LET validated == ValidateId(id)
       IN /\ ~validated.ok
          /\ clients' = [clients EXCEPT ![c] =
                 [op |-> "deleteProduct", pc |-> "done", id |-> id,
                  ret |-> Thrown(Caught(validated.error, "Failed to delete product"))]]
    /\ UNCHANGED <<store, clock>>

\* update data handed to updateProduct and to ProductRepository.update
UpdateInputs == {[sku |-> SkuOf(1), is_active |-> TRUE]}

(***************************************************************************)
(* ProductService.generateSampleData: the products are built from the clock *)
(* and random picks, then stored by one bulkCreate (one transaction).       *)
(***************************************************************************)
MinPriceCents == 1000
MaxPriceCents == 100000
MinRatingHundredths == 300
MaxRatingHundredths == 500
MaxReviewCount == 500
MaxStockQuantity == 100

\* category.replace(/[^A-Z]/gi, "")
LettersOnly(s) == SelectSeq(s, LAMBDA ch : IndexIn(LowerAlpha, ch) > 0 \/ IndexIn(UpperAlpha, ch) > 0)

HP == <<"H","P">>
LG == <<"L","G">>
Pro == <<"P","r","o">>

\* the fixed parts of a sample product's description and image_url
SampleBlurb ==
    <<"."," ","P","e","r","f","e","c","t"," ","f","o","r"," ","y","o","u","r"," ","d","a","i","l","y"," ","n","e","e","d","s">>
    \o <<" ","w","i","t","h"," ","a","d","v","a","n","c","e","d"," ","f","e","a","t","u","r","e","s"," ","a","n","d">>
    \o <<" ","r","e","l","i","a","b","l","e"," ","p","e","r","f","o","r","m","a","n","c","e",".">>
PicsumUrl ==
    <<"h","t","t","p","s",":","/","/","p","i","c","s","u","m",".","p","h","o","t","o","s","/">> \o <<"4","0","0","/","4","0","0","?","r","a","n","d","o","m","=">>

\* what Math.random() can pick for one product: a category, a brand and an
\* adjective of the constants, and numbers at the ends of their ranges
RandomPicks ==
    { [category |-> Toys, brand |-> draw[1], adjective |-> Pro, price |-> draw[2],
       stock_quantity |-> draw[3], rating |-> draw[4], review_count |-> draw[5]] :
      draw \in { <<HP, MinPriceCents, 1, MinRatingHundredths, 1>> } }

\* the i-th product generateSampleData builds at time timestamp
SampleProduct(i, timestamp, pick) ==
    [name |-> pick.adjective \o <<" ">> \o pick.brand \o <<" ">> \o pick.category
              \o <<" ">> \o NumberToString(i),
     description |-> <<"H","i","g","h","-","q","u","a","l","i","t","y"," ">> \o ToLowerCase(pick.category) \o <<" ","f","r","o","m"," ">> \o pick.brand \o SampleBlurb,
     category |-> pick.category,
     brand |-> pick.brand,
     price |-> pick.price,
     stock_quantity |-> pick.stock_quantity,
     sku |-> <<"S","K","U","-">> \o ToUpperCase(pick.brand) \o <<"-">>
             \o ToUpperCase(LettersOnly(pick.category)) \o <<"-">>
             \o NumberToString(timestamp) \o <<"-">> \o PadStart(NumberToString(i), 3),
     image_url |-> PicsumUrl \o NumberToString(timestamp + i),
     rating |-> pick.rating,
     review_count |-> pick.review_count,
     is_active |-> TRUE]

\* generateSampleData(params) up to the call of bulkCreate, Math.random()
\* picking from random
GenerateSampleDataPicking(c, params, random) ==
    /\ clients[c] = Idle
    /\ LET validated == ValidateData(params, GenerateSampleDataSchema)
           call == [op |-> "generateSampleData", arg |-> params]
       IN IF ~validated.ok
          THEN clients' = [clients EXCEPT ![c] =
                   [pc |-> "done",
                    ret |-> Thrown(Caught(validated.error, "Error generating sample data"))]
                   @@ call]
          ELSE \E picks \in [1..validated.value.count -> random] :
                  clients' = [clients EXCEPT ![c] =
                      [pc |-> "bulkCreate",
                       products |-> [i \in 1..validated.value.count |->
                                        SampleProduct(i, clock, picks[i])]] @@ call]
    /\ UNCHANGED <<store, clock>>

\* generateSampleData(params) up to the call of bulkCreate
GenerateSampleDataCall(c, params) == GenerateSampleDataPicking(c, params, RandomPicks)

\* the driver error of the INSERT of a batch of rows, if any: all rows are
\* stored or none
BulkInsertError(st, rows) ==
    IF \E i \in 1..Len(rows) : ~Checks(rows[i]) THEN <<CheckViolation>>
    ELSE IF \/ \E i \in 1..Len(rows) : ~UQ_products_sku(st, NoId, rows[i].sku)
            \/ \E i, j \in 1..Len(rows) : i # j /\ rows[i].sku = rows[j].sku
    THEN <<UniqueViolation>>
    ELSE <<>>

BulkInsertFirstOnly(st, ids, rows) ==
    [j \in DOMAIN st \cup {ids[1]} |-> IF j \in DOMAIN st THEN st[j] ELSE rows[1]]

\* the table after INSERT of rows under the identifiers ids
BulkInsert(st, ids, rows) ==
    [j \in DOMAIN st \cup {ids[i] : i \in 1..Len(ids)} |->
        IF j \in DOMAIN st THEN st[j]
        ELSE rows[CHOOSE i \in 1..Len(ids) : ids[i] = j]]

\* the sequences of n different identifiers that are free in st
FreshIds(st, n) ==
    { ids \in [1..n -> StoreIds \ DOMAIN st] : \A i, j \in 1..n : i # j => ids[i] # ids[j] }

\* productRepository.bulkCreate(products) and the return of generateSampleData
GenerateSampleDataSave(c) ==
    /\ clients[c].op = "generateSampleData" /\ clients[c].pc = "bulkCreate"
    /\ LET products == clients[c].products
           count == Len(products)
           rows == [i \in 1..count |-> NewRow(products[i], clock)]
           failed == BulkInsertError(store, rows)
           call == [op |-> "generateSampleData", pc |-> "done", arg |-> clients[c].arg]
       IN IF failed # <<>>
          THEN /\ clients' = [clients EXCEPT ![c] =
                      [ret |-> Thrown(Caught(
                           HandleDatabaseError(failed[1], "bulkCreate", [count |-> count]),
                           "Error generating sample data"))] @@ call]
               /\ UNCHANGED store
          ELSE \E ids \in FreshIds(store, count) :
                  /\ store' = BulkInsert(store, ids, rows)
                  /\ clients' = [clients EXCEPT ![c] =
                         [ret |-> Returned(
                             [requested |-> count, created |-> count,
                              products |-> [i \in 1..count |->
                                  ToJSON(SavedEntity(products[i], ids[i], clock))]])]
                         @@ call]
    /\ UNCHANGED clock

\* parameters handed to generateSampleData
SampleParams == {[count |-> n] : n \in 1..MaxCount} \cup {[count |-> CountMax + 1]}

(***************************************************************************)
(* ProductRepository.softDelete, update and findById, called directly.      *)
(***************************************************************************)
\* the table after UPDATE ... SET is_active = false, updated_at = now WHERE id
SoftDelete(st, id, now) ==
    [j \in DOMAIN st |-> IF j = id THEN Patched(st[j], [is_active |-> FALSE, updated_at |-> now])
                         ELSE st[j]]

\* softDelete(id): true when the UPDATE affected a row. row is the row as the
\* UPDATE left it.
SoftDeleteCall(c, id) ==
    /\ clients[c] = Idle
    /\ store' = SoftDelete(store, id, clock)
    /\ clients' = [clients EXCEPT ![c] =
           [op |-> "softDelete", pc |-> "done", id |-> id,
            ret |-> Returned(id \in DOMAIN store)]
           @@ (IF id \in DOMAIN store THEN [row |-> store'[id]] ELSE EmptyObject)]
    /\ UNCHANGED clock

\* update(id, updateData) up to the answer of the first findById
UpdateCall(c, id, updateData) ==
    /\ clients[c] = Idle
    /\ clients' = [clients EXCEPT ![c] =
           [op |-> "update", id |-> id, arg |-> updateData]
           @@ (IF FindById(store, id) = Null
               THEN [pc |-> "done", ret |-> Returned(Null)]
               ELSE [pc |-> "update"])]
    /\ UNCHANGED <<store, clock>>

\* repo.update(id, updateData): the UPDATE of the row, whatever its is_active
UpdateWrite(c) ==
    /\ clients[c].op = "update" /\ clients[c].pc = "update"
    /\ LET id == clients[c].id
           updateData == clients[c].arg
           row == Patched(store[id], updateData @@ [updated_at |-> clock])
           failed == IF ~Checks(row) THEN <<CheckViolation>>
                     ELSE IF ~UQ_products_sku(store, id, row.sku) THEN <<UniqueViolation>>
                     ELSE <<>>
       IN IF failed # <<>>
          THEN /\ clients' = [clients EXCEPT ![c] =
                      [op |-> "update", pc |-> "done", id |-> id, arg |-> updateData,
                       ret |-> Thrown(HandleDatabaseError(failed[1], "update",
                                   [productId |-> id, updateFields |-> DOMAIN updateData]))]]
               /\ UNCHANGED store
          ELSE /\ store' = [store EXCEPT ![id] = row]
               /\ clients' = [clients EXCEPT ![c].pc = "findById"]
    /\ UNCHANGED clock

\* return this.findById(id)
UpdateReturn(c) ==
    /\ clients[c].op = "update" /\ clients[c].pc = "findById"
    /\ clients' = [clients EXCEPT ![c] =
           [op |-> "update", pc |-> "done", id |-> clients[c].id, arg |-> clients[c].arg,
            ret |-> Returned(FindById(store, clients[c].id))]]
    /\ UNCHANGED <<store, clock>>

FindByIdCall(c, id) ==
    /\ clients[c] = Idle
    /\ clients' = [clients EXCEPT ![c] =
           [op |-> "findById", pc |-> "done", id |-> id, ret |-> Returned(FindById(store, id))]]
    /\ UNCHANGED <<store, clock>>

(***************************************************************************)
(* ProductService.getProducts, searchProducts and getFilterOptions while    *)
(* others write. getManyAndCount is two queries: the page, then the count.  *)
(***************************************************************************)
\* serviceValidationSchemas.searchParams: searchTerm and the nested filters
SearchTermSchema == JoiObject(
    << [key |-> "searchTerm", type |-> "string", trim |-> TRUE, min |-> 2, max |-> SearchMax,
        required |-> TRUE] >>)
SearchFiltersSchema == JoiObject(
    << [key |-> "page", type |-> "number", min |-> 1, default |-> 1],
       [key |-> "limit", type |-> "number", min |-> 1, max |-> LimitMax, default |-> LimitDefault],
       [key |-> "sort_by", type |-> "keyword", valid |-> AllowedSortFields \ {"stock_quantity"},
        default |-> "created_at"],
       [key |-> "sort_order", type |-> "string",
        valid |-> {<<"A","S","C">>, <<"D","E","S","C">>, <<"a","s","c">>, <<"d","e","s","c">>},
        default |-> <<"D","E","S","C">>] >>)

\* this._validateData({ searchTerm, filters }, serviceValidationSchemas.searchParams)
ValidateSearchParams(searchTerm, filters) ==
    LET term == Validate(SearchTermSchema, [searchTerm |-> searchTerm])
        nested == Validate(SearchFiltersSchema, filters)
        details == term.details
                   \o [i \in 1..Len(nested.details) |->
                          [k \in DOMAIN nested.details[i] |->
                              IF k = "field" THEN "filters." \o nested.details[i].field
                              ELSE nested.details[i][k]]]
    IN IF details # <<>>
       THEN Thrown(ValidationError([details |-> ErrorDetails(details)]))
       ELSE Returned([searchTerm |-> term.value.searchTerm, filters |-> nested.value])

\* getProducts(filters) up to the first query of findWithFilters
GetProductsSelect(c, filters) ==
    /\ clients[c] = Idle
    /\ LET checked == Validate(FilterParamsSchema, filters)
       IN IF checked.details # <<>>
          THEN clients' = [clients EXCEPT ![c] =
                   [op |-> "getProducts", pc |-> "done", arg |-> filters,
                    ret |-> Thrown(Caught(ValidationError(EmptyObject),
                                          "Error in retrieve products"))]]
          ELSE \E result \in FindWithFilters(store, checked.value) :
                  clients' = [clients EXCEPT ![c] =
                      [op |-> "getProducts", pc |-> "count", arg |-> filters,
                       filters |-> checked.value, products |-> result.products]]
    /\ UNCHANGED <<store, clock>>

\* searchProducts(searchTerm, filters) up to the first query of findWithFilters
SearchProductsSelect(c, searchTerm, filters) ==
    /\ clients[c] = Idle
    /\ LET validated == ValidateSearchParams(searchTerm, filters)
           call == [op |-> "searchProducts", arg |-> [searchTerm |-> searchTerm,
                                                      filters |-> filters]]
       IN IF ~validated.ok
          THEN clients' = [clients EXCEPT ![c] =
                   [pc |-> "done",
                    ret |-> Thrown(Caught(validated.error, "Error searching products"))]
                   @@ call]
          ELSE LET repoFilters == [search |-> validated.value.searchTerm]
                                  @@ validated.value.filters
               IN \E result \in FindWithFilters(store, repoFilters) :
                     clients' = [clients EXCEPT ![c] =
                         [pc |-> "count", filters |-> repoFilters,
                          products |-> result.products] @@ call]
    /\ UNCHANGED <<store, clock>>

\* the count query, the pagination metadata and the return of the operation
FindWithFiltersCount(c) ==
    /\ clients[c].op \in {"getProducts", "searchProducts"} /\ clients[c].pc = "count"
    /\ LET filters == clients[c].filters
           products == clients[c].products
       IN clients' = [clients EXCEPT ![c] =
              [op |-> clients[c].op, pc |-> "done", arg |-> clients[c].arg,
               ret |-> Returned(
                   [products |-> [i \in 1..Len(products) |-> ToJSON(products[i])],
                    pagination |-> Pagination(Get(filters, "page", 1),
                                              Get(filters, "limit", LimitDefault),
                                              Total(store, filters))])]]
    /\ UNCHANGED <<store, clock>>

GetFilterOptionsCall(c) ==
    /\ clients[c] = Idle
    /\ clients' = [clients EXCEPT ![c] =
           [op |-> "getFilterOptions", pc |-> "done",
            ret |-> Returned(GetFilterOptions(store))]]
    /\ UNCHANGED <<store, clock>>

\* filters handed to getProducts, search terms and filters to searchProducts
ServiceFilters == {EmptyObject, [is_active |-> FALSE], [page |-> 0]}
SearchTerms == {<<"w","i","d">>, <<"x">>}
SearchFilters == {EmptyObject, [limit |-> 1]}

(***************************************************************************)
(* The service and the repository under concurrent clients.                 *)
(***************************************************************************)
\* time passes: Date.now() and the store's now()
Tick ==
    /\ clock < MaxClock
    /\ clock' = clock + 1
    /\ UNCHANGED <<store, clients>>

Init ==
    /\ store = [id \in {} |-> Null]
    /\ clock = 0
    /\ clients = [c \in Clients |-> Idle]

Next ==
    \/ Tick
    \/ \E c \in Clients :
          \/ \E productData \in CreateInputs : CreateProductCall(c, productData)
          \/ CreateProductSave(c)
          \/ \E params \in SampleParams : GenerateSampleDataCall(c, params)
          \/ GenerateSampleDataSave(c)
          \/ \E id \in StoreIds : SoftDeleteCall(c, id)
          \/ \E id \in StoreIds, updateData \in UpdateInputs : UpdateCall(c, id, updateData)
          \/ UpdateWrite(c)
          \/ UpdateReturn(c)
          \/ Return(c)
    \/ \E id \in StoreIds, updateData \in UpdateInputs : UpdateProductCall(Reader, id, updateData)
    \/ \E id \in StoreIds : DeleteProductCall(Reader, id)
    \/ \E id \in StoreIds : GetProductByIdCall(Reader, id)
    \/ \E id \in StoreIds : FindByIdCall(Reader, id)
    \/ \E filters \in ServiceFilters : GetProductsSelect(Reader, filters)
    \/ \E searchTerm \in SearchTerms, filters \in SearchFilters :
          SearchProductsSelect(Reader, searchTerm, filters)
    \/ FindWithFiltersCount(Reader)
    \/ GetFilterOptionsCall(Reader)

Spec == Init /\ [][Next]_vars

(***************************************************************************)
(* Claims about findWithFilters on a store that nobody writes (SpecQuery).  *)
(***************************************************************************)
\* the identifiers of a page's items, in order
ItemIds(result) == [i \in 1..Len(result.products) |-> result.products[i].id]

RECURSIVE Concat(_)
Concat(seqs) == IF seqs = <<>> THEN <<>> ELSE Head(seqs) \o Concat(Tail(seqs))

\* the identifiers on pages 1..total_pages, concatenated
BrowsedIds(c) == Concat([i \in 1..Len(clients[c].pages) |-> ItemIds(clients[c].pages[i])])

\* C6: once a caller has read pages 1..total_pages of a listing (any filters,
\* any limit, no writes meanwhile), the concatenated pages hold every row the
\* filters select, and no identifier twice.
C6_PagesPartitionSelection ==
    \A c \in Clients :
        (clients[c].op = "browse" /\ clients[c].pc = "done") =>
            LET ids == BrowsedIds(c)
            IN /\ \A i, j \in 1..Len(ids) : i # j => ids[i] # ids[j]
               /\ {ids[i] : i \in 1..Len(ids)} = Selected(store, clients[c].filters)

\* a listing of three pages sorted by price whose first two pages start with
\* rows of the same price
C6_Witness ==
    /\ clients[Reader].op = "browse" /\ clients[Reader].pc = "done"
    /\ Len(clients[Reader].pages) = 3
    /\ Get(clients[Reader].filters, "sort_by", "created_at") = "price"
    /\ clients[Reader].pages[1].products[1].price = clients[Reader].pages[2].products[1].price

\* item a comes before item b: by the sort field in the direction asked for,
\* rows equal in it by ascending identifier
ComesBefore(a, b, field, direction) ==
    IF a[field] = b[field] THEN a.id < b.id
    ELSE IF direction = "ASC" THEN ColumnLess(field, a[field], b[field])
    ELSE ColumnLess(field, b[field], a[field])

\* the selection is three rows priced 5, 5 and 10
ThreeRowsPriced5And5And10(st, filters) ==
    LET sel == Selected(st, filters)
    IN /\ Cardinality(sel) = 3
       /\ Cardinality({id \in sel : st[id].price = 500}) = 2
       /\ Cardinality({id \in sel : st[id].price = 1000}) = 1

\* C8: the items of every page are strictly ordered by the sort field in the
\* requested direction and, among equal values, by ascending identifier (also
\* under DESC); with three selected rows priced 5, 5, 10, sort_by=price,
\* sort_order=ASC and limit=2, page 1 is the two rows priced 5 by ascending
\* identifier and page 2 is the row priced 10.
C8_PageStrictlyOrdered ==
    \A c \in Clients :
        (clients[c].op = "findWithFilters" /\ clients[c].pc = "done") =>
            LET filters == clients[c].filters
                items == clients[c].ret.products
            IN /\ \A i, j \in 1..Len(items) :
                     i < j => ComesBefore(items[i], items[j], SortField(filters),
                                          SortDirection(filters))
               /\ ( /\ Get(filters, "sort_by", "created_at") = "price"
                    /\ SortDirection(filters) = "ASC"
                    /\ Get(filters, "limit", 20) = 2
                    /\ ThreeRowsPriced5And5And10(store, filters) ) =>
                     /\ Get(filters, "page", 1) = 1 =>
                           /\ Len(items) = 2
                           /\ items[1].price = 500 /\ items[2].price = 500
                           /\ items[1].id < items[2].id
                     /\ Get(filters, "page", 1) = 2 =>
                           /\ Len(items) = 1
                           /\ items[1].price = 1000

\* page 1 of the scenario has been returned
C8_Witness ==
    /\ clients[Reader].op = "findWithFilters" /\ clients[Reader].pc = "done"
    /\ Get(clients[Reader].filters, "sort_by", "created_at") = "price"
    /\ SortDirection(clients[Reader].filters) = "ASC"
    /\ Get(clients[Reader].filters, "limit", 20) = 2
    /\ Get(clients[Reader].filters, "page", 1) = 1
    /\ Get(clients[Reader].filters, "category", <<>>) = Tools
    /\ ThreeRowsPriced5And5And10(store, clients[Reader].filters)
    /\ Len(clients[Reader].ret.products) = 2

\* C10: for page >= 1 and limit >= 1 the items are the rows at positions
\* (page-1)*limit .. (page-1)*limit+limit-1 of the ordered selection that exist
\* (the i-th item has exactly (page-1)*limit+i-1 selected rows before it), and
\* total_items = total, total_pages = ceil(total/limit),
\* has_next_page = (page < total_pages), has_previous_page = (page > 1).
C10_WindowAndPagination ==
    \A c \in Clients :
        (clients[c].op = "findWithFilters" /\ clients[c].pc = "done") =>
            LET filters == clients[c].filters
                page == Get(filters, "page", 1)
                limit == Get(filters, "limit", 20)
                items == clients[c].ret.products
                meta == clients[c].ret.pagination
                sel == Selected(store, filters)
                total == Cardinality(sel)
            IN /\ Len(items) = Min(limit, Max(0, total - (page - 1) * limit))
               /\ \A i \in 1..Len(items) :
                     /\ items[i].id \in sel
                     /\ items[i] = ProductModel(store, items[i].id)
                     /\ Cardinality({id \in sel :
                            ComesBefore(ProductModel(store, id), items[i],
                                        SortField(filters), SortDirection(filters))})
                        = (page - 1) * limit + i - 1
               /\ meta.total_items = total
               /\ meta.total_pages * limit >= total
               /\ (meta.total_pages - 1) * limit < total
               /\ meta.has_next_page = (page < meta.total_pages)
               /\ meta.has_previous_page = (page > 1)
               /\ meta.current_page = page /\ meta.items_per_page = limit

\* the last page of a selection of three rows read two at a time: one row
C10_Witness ==
    /\ clients[Reader].op = "findWithFilters" /\ clients[Reader].pc = "done"
    /\ Get(clients[Reader].filters, "page", 1) = 2
    /\ Get(clients[Reader].filters, "limit", 20) = 2
    /\ clients[Reader].ret.pagination.total_items = 3
    /\ Len(clients[Reader].ret.products) = 1
    /\ ~clients[Reader].ret.pagination.has_next_page

(***************************************************************************)
(* Claims about getProducts on a store that nobody writes (SpecList).       *)
(***************************************************************************)
\* the claim's predicate, on the filters as validated: category and brand
\* equal, price within [min_price, max_price], search contained (whatever the
\* case) in name, description or brand
MatchesPredicate(row, f) ==
    /\ Has(f, "category") => row.category = f.category
    /\ Has(f, "brand") => row.brand = f.brand
    /\ Has(f, "min_price") => row.price >= f.min_price
    /\ Has(f, "max_price") => row.price <= f.max_price
    /\ Has(f, "search") =>
          \E col \in {row.name, row.description, row.brand} :
              col # NullText /\ Contains(ToLowerCase(col), ToLowerCase(f.search))

C9_RepeatedCallReturnsSame ==
    \A c \in Clients :
        (clients[c].op = "getProducts" /\ clients[c].pc = "done" /\ clients[c].calls = 2) =>
            clients[c].ret = clients[c].first

\* both calls returned a page holding one of several rows of the same price,
\* sorted by price
C9_Witness ==
    /\ clients[Reader].op = "getProducts" /\ clients[Reader].pc = "done"
    /\ clients[Reader].calls = 2
    /\ clients[Reader].ret.ok
    /\ Get(clients[Reader].filters, "sort_by", "created_at") = "price"
    /\ Get(clients[Reader].filters, "limit", LimitDefault) = 1
    /\ Len(clients[Reader].ret.value.products) = 1
    /\ Cardinality({id \in DOMAIN store : store[id].is_active /\
          store[id].price = clients[Reader].ret.value.products[1].price}) >= 2

(***************************************************************************)
(* Claims about the service and the repository under concurrent clients     *)
(* (Spec).                                                                  *)
(***************************************************************************)
\* the rows of st that hold sku
RowsWithSku(st, sku) == {id \in DOMAIN st : st[id].sku = sku}

\* client c's call of op has returned
Done(c, op) == clients[c].op = op /\ clients[c].pc = "done"

\* client c's call has failed with an error of this name
Failed(c, name) == ~clients[c].ret.ok /\ clients[c].ret.error.name = name

\* client c's call has failed with a DatabaseError classified as a violation
\* of a unique constraint
FailedOnUniqueConstraint(c) ==
    /\ Failed(c, "DatabaseError")
    /\ clients[c].ret.error.message = "Unique constraint violation"
    /\ Get(clients[c].ret.error.metadata, "constraint", "none") = "unique"

\* C1: in every reachable state, whatever createProduct, updateProduct,
\* deleteProduct and generateSampleData calls (and repository calls) have
\* run and however they interleaved, no two stored rows, active or inactive,
\* have the same sku.
C1_SkuUnique ==
    \A a, b \in DOMAIN store : a # b => store[a].sku # store[b].sku

\* two rows are stored and a write has just been refused by the unique
\* constraint
C1_Witness ==
    /\ Cardinality(DOMAIN store) = 2
    /\ \E c \in Clients : /\ clients[c].pc = "done"
                          /\ clients[c].op \in {"createProduct", "generateSampleData", "update"}
                          /\ FailedOnUniqueConstraint(c)

\* C2: a createProduct call with valid data whose (trimmed) sku some stored
\* row holds, active or inactive, fails with BadRequestError and stores
\* nothing, and one whose sku no row holds goes on to the INSERT; an INSERT
\* whose sku no row holds succeeds, stores exactly one new row and leaves the
\* others as they were, and the record returned has an identifier no row had
\* before.
C2_DuplicateRefusedFreshStored ==
    [][\A c \in Clients :
        /\ ( /\ clients[c] = Idle
             /\ clients'[c].op = "createProduct"
             /\ Validate(CreateProductSchema, clients'[c].arg).details = <<>> )
           => LET sku == Validate(CreateProductSchema, clients'[c].arg).value.sku
              IN IF RowsWithSku(store, sku) # {}
                 THEN /\ clients'[c].pc = "done"
                      /\ ~clients'[c].ret.ok
                      /\ clients'[c].ret.error.name = "BadRequestError"
                      /\ store' = store
                 ELSE clients'[c].pc = "create" /\ store' = store
        /\ ( /\ clients[c].op = "createProduct" /\ clients[c].pc = "create"
             /\ clients'[c].pc = "done"
             /\ RowsWithSku(store, clients[c].data.sku) = {} )
           => /\ clients'[c].ret.ok
              /\ clients'[c].ret.value.id \notin DOMAIN store
              /\ DOMAIN store' = DOMAIN store \cup {clients'[c].ret.value.id}
              /\ \A id \in DOMAIN store : store'[id] = store[id]
              /\ store'[clients'[c].ret.value.id].sku = clients[c].data.sku
    ]_vars

\* one client's createProduct has stored a row and the other's, with the same
\* sku, has been refused with BadRequestError
C2_Witness ==
    \E c, d \in Clients :
        /\ Done(c, "createProduct") /\ clients[c].ret.ok
        /\ Done(d, "createProduct") /\ Failed(d, "BadRequestError")
        /\ store[clients[c].ret.value.id].sku
               = Validate(CreateProductSchema, clients[d].arg).value.sku

\* C3: a createProduct call that passed the isSkuExists check and finds at its
\* INSERT that a row has taken the sku meanwhile stores nothing and fails
\* with a DatabaseError classified as a unique-constraint violation (never a
\* success, never BadRequestError); exactly one row with the sku is stored.
C3_LoserFailsOnUniqueConstraint ==
    [][\A c \in Clients :
        ( /\ clients[c].op = "createProduct" /\ clients[c].pc = "create"
          /\ clients'[c].pc = "done"
          /\ RowsWithSku(store, clients[c].data.sku) # {} )
        => /\ store' = store
           /\ ~clients'[c].ret.ok
           /\ clients'[c].ret.error.name = "DatabaseError"
           /\ clients'[c].ret.error.message = "Unique constraint violation"
           /\ Get(clients'[c].ret.error.metadata, "constraint", "none") = "unique"
           /\ Cardinality(RowsWithSku(store', clients[c].data.sku)) = 1
    ]_vars

\* two createProduct calls with the same sku have both returned: one stored
\* the row, the other lost the race
C3_Witness ==
    \E c, d \in Clients :
        /\ Done(c, "createProduct") /\ clients[c].ret.ok
        /\ Done(d, "createProduct") /\ FailedOnUniqueConstraint(d)
        /\ clients[c].ret.value.sku = clients[d].ret.error.metadata.context.sku
        /\ Cardinality(RowsWithSku(store, clients[c].ret.value.sku)) = 1

\* filters of findWithFilters calls that do not pass is_active = false
ActiveFilters ==
    { Prop("is_active", is_active) @@ Prop("category", category) @@ Prop("limit", limit) :
        is_active \in Optional({TRUE}), category \in Optional({Tools, Toys}),
        limit \in Optional({1}) }

\* C4: once softDelete(id) has returned true, and as long as the row is as
\* softDelete left it, findById(id) returns null, no findWithFilters call
\* that does not pass is_active = false returns the product, and the row is
\* still stored with is_active false.
C4_SoftDeletedHiddenButStored ==
    \A c \in Clients :
        ( /\ Done(c, "softDelete")
          /\ clients[c].ret.value
          /\ (clients[c].id \in DOMAIN store => store[clients[c].id] = clients[c].row) )
        => /\ clients[c].id \in DOMAIN store
           /\ ~store[clients[c].id].is_active
           /\ FindById(store, clients[c].id) = Null
           /\ \A filters \in ActiveFilters :
                 \A result \in FindWithFilters(store, filters) :
                    \A i \in 1..Len(result.products) :
                       result.products[i].id # clients[c].id

\* softDelete has returned true for a row that was active, the row is as it
\* left it, and another client's update of the same row has passed its
\* existence check and has not written yet
C4_Witness ==
    \E c, d \in Clients :
        /\ Done(c, "softDelete") /\ clients[c].ret.value
        /\ store[clients[c].id] = clients[c].row
        /\ clients[d].op = "update" /\ clients[d].pc = "update"
        /\ clients[d].id = clients[c].id

\* C5: no step of any operation removes a row: the identifiers stored after
\* a step include the identifiers stored before it.
C5_RowsNeverRemoved ==
    [][DOMAIN store \subseteq DOMAIN store']_vars

\* deleteProduct has returned for a stored row while the store is full
C5_Witness ==
    /\ DOMAIN store = StoreIds
    /\ \E c \in Clients : Done(c, "deleteProduct") /\ clients[c].id \in DOMAIN store
    /\ \E id \in DOMAIN store : ~store[id].is_active

(***************************************************************************)
(* Claims about the service operations that take an identifier (Spec).      *)
(***************************************************************************)
\* client c starts a call of op in this step
Calls(c, op) == clients[c] = Idle /\ clients'[c].op = op

\* the call client c has made in this step has failed with an error of this name
FailsWith(c, name) ==
    /\ clients'[c].pc = "done"
    /\ ~clients'[c].ret.ok
    /\ clients'[c].ret.error.name = name

\* C11: getProductById(id) returns the transport data of the stored active
\* row id, and fails with NotFoundError (status 404) when no row has the
\* identifier or the row is inactive.
C11_GetProductByIdFindsActiveRow ==
    [][\A c \in Clients :
        Calls(c, "getProductById") =>
            LET found == FindById(store, clients'[c].id)
            IN IF found # Null
               THEN /\ clients'[c].pc = "done"
                    /\ clients'[c].ret.ok
                    /\ clients'[c].ret.value = ToJSON(found)
               ELSE /\ FailsWith(c, "NotFoundError")
                    /\ clients'[c].ret.error.statusCode = 404
    ]_vars

\* C12: updateProduct and deleteProduct for an identifier with no active row
\* fail with NotFoundError and leave the store unchanged; for an active row
\* and valid input they do not fail.
C12_UpdateAndDeleteRequireActiveRow ==
    [][\A c \in Clients :
        (Calls(c, "updateProduct") \/ Calls(c, "deleteProduct")) =>
            IF FindById(store, clients'[c].id) = Null
            THEN FailsWith(c, "NotFoundError") /\ store' = store
            ELSE clients'[c].pc = "done" => clients'[c].ret.ok
    ]_vars

\* C13: updateProduct of an active row with a patch whose sku another row
\* holds, active or inactive, fails with BadRequestError and changes nothing;
\* with a patch whose sku is the row's own it does not fail.
C13_UpdateSkuMustBeFreeOrOwn ==
    [][\A c \in Clients :
        ( /\ Calls(c, "updateProduct")
          /\ FindById(store, clients'[c].id) # Null
          /\ Has(clients'[c].arg, "sku") ) =>
            IF RowsWithSku(store, clients'[c].arg.sku) \ {clients'[c].id} # {}
            THEN FailsWith(c, "BadRequestError") /\ store' = store
            ELSE clients'[c].pc = "done" => clients'[c].ret.ok
    ]_vars

(***************************************************************************)
(* Claims about the errors of the service operations (Spec).                *)
(***************************************************************************)
ServiceOperations ==
    {"getProducts", "getProductById", "createProduct", "updateProduct",
     "deleteProduct", "getFilterOptions", "generateSampleData", "searchProducts"}

\* the message of the InternalServerError each operation's catch block throws
UnexpectedMessages ==
    {"Error in retrieve products", "Error getting product by ID",
     "Error creating product", "Error updating product", "Failed to delete product",
     "Error getting filter options", "Error generating sample data",
     "Error searching products"}

\* error is an intact error of one of the five kinds the controller knows
DomainError(error) ==
    \/ error.name = "ValidationError" /\ error = ValidationError(error.metadata)
    \/ error.name = "BadRequestError" /\ error = BadRequestError(error.message)
    \/ error.name = "NotFoundError" /\ error = NotFoundError(error.message)
    \/ error.name = "DatabaseError"
         /\ error = DatabaseError(error.message, error.metadata)
    \/ error.name = "InternalServerError"
         /\ error = InternalServerError(error.message)
         /\ error.message \in UnexpectedMessages

\* C14: every failure of a service operation reaches its caller as a
\* ValidationError, BadRequestError, NotFoundError, DatabaseError or
\* InternalServerError; an exception of no such kind (the TypeError of the
\* identifier validation) has been replaced by InternalServerError.
C14_FailuresAreDomainErrors ==
    \A c \in Clients :
        ( /\ clients[c].op \in ServiceOperations
          /\ clients[c].pc = "done"
          /\ ~clients[c].ret.ok ) => DomainError(clients[c].ret.error)

\* one client's updateProduct has ended with the InternalServerError that
\* replaced the TypeError while the other's createProduct has ended with the
\* DatabaseError the repository threw
C14_Witness ==
    \E c, d \in Clients :
        /\ Done(c, "updateProduct") /\ Failed(c, "InternalServerError")
        /\ Done(d, "createProduct") /\ Failed(d, "DatabaseError")

\* the schema an operation checks its input against, for the operations
\* that have one
InputSchemas ==
    [createProduct |-> CreateProductSchema, getProducts |-> FilterParamsSchema,
     generateSampleData |-> GenerateSampleDataSchema]

\* C15: an operation that rejects its input against its schema fails with a
\* ValidationError whose metadata carries a list of entries with field and
\* message, one for every violated rule of the input.
C15_RejectionListsEveryViolation ==
    \A c \in Clients :
        ( /\ clients[c].op \in DOMAIN InputSchemas
          /\ clients[c].pc = "done"
          /\ Validate(InputSchemas[clients[c].op], clients[c].arg).details # <<>> ) =>
            LET violated == Validate(InputSchemas[clients[c].op], clients[c].arg).details
                error == clients[c].ret.error
            IN /\ Failed(c, "ValidationError")
               /\ Has(error.metadata, "details")
               /\ Len(error.metadata.details) = Len(violated)
               /\ \A i \in 1..Len(violated) :
                      /\ error.metadata.details[i].field = violated[i].field
                      /\ Has(error.metadata.details[i], "message")

(***************************************************************************)
(* The service called by one client with inputs that test its schemas:      *)
(* unknown fields, and values at and beyond the limits (SpecInput).         *)
(***************************************************************************)
\* the largest page the spec and getProductsQuerySchema allow
PageMax == 10000

Red == <<"r","e","d">>

\* product data handed to createProduct: plain, with a field the schema does
\* not know, and invalid with such a field
CreateInputsWithUnknown ==
    LET base == [name |-> Widget, category |-> Tools, brand |-> Acme, price |-> 999]
    IN { base @@ [sku |-> SkuOf(1)],
         base @@ [sku |-> SkuOf(2), colour |-> Red],
         [name |-> <<"W">>, sku |-> SkuOf(2), colour |-> Red] }

\* filters handed to getProducts
ListInputs ==
    { EmptyObject, [page |-> 2, limit |-> 1], [page |-> 0], [page |-> PageMax],
      [page |-> PageMax + 1], [limit |-> 0], [limit |-> LimitMax],
      [limit |-> LimitMax + 1], [sort_by |-> "price"], [sort_by |-> "id"],
      [sort_by |-> "price", colour |-> Red] }

\* product data whose sku has a lowercase letter, a blank inside, or two
\* characters only
SkuInputs ==
    { [name |-> Widget, category |-> Tools, brand |-> Acme, price |-> 999, sku |-> sku] :
      sku \in { <<"s","k","-","1">>, <<"S","K"," ","1">>, <<"S","K">> } }

\* patches handed to updateProduct
UpdateInputsWithUnknown == {[sku |-> SkuOf(1)], [sku |-> SkuOf(1), colour |-> Red]}

\* an identifier that is no UUID; the UUIDs of the model are the numbers of Ids
MalformedId == 0 - 1

\* identifiers handed to getProductById, updateProduct and deleteProduct
IdInputs == StoreIds \cup {MalformedId}

NextInput ==
    \/ \E productData \in CreateInputsWithUnknown \cup SkuInputs :
          CreateProductCall(Reader, productData)
    \/ CreateProductSave(Reader)
    \/ \E filters \in ListInputs : GetProductsSelect(Reader, filters)
    \/ FindWithFiltersCount(Reader)
    \/ \E id \in IdInputs, updateData \in UpdateInputsWithUnknown :
          UpdateProductCall(Reader, id, updateData)
    \/ \E id \in IdInputs : GetProductByIdCall(Reader, id)
    \/ \E id \in IdInputs : DeleteProductCall(Reader, id)
    \/ Return(Reader)

SpecInput == Init /\ [][NextInput]_vars

\* the keys a schema knows
SchemaKeys(schema) == {schema.rules[i].key : i \in 1..Len(schema.rules)}

\* C16: createProduct with a field its schema does not know is rejected with
\* ValidationError and stores nothing; getProducts and updateProduct with such
\* a field go on with the known fields only.
C16_UnknownFieldRejectedOnCreateStrippedElsewhere ==
    [][\A c \in Clients :
        /\ ( /\ Calls(c, "createProduct")
             /\ ~(DOMAIN clients'[c].arg \subseteq SchemaKeys(CreateProductSchema)) ) =>
               FailsWith(c, "ValidationError") /\ store' = store
        /\ ( /\ Calls(c, "getProducts")
             /\ Validate(FilterParamsSchema, clients'[c].arg).details = <<>> ) =>
               /\ clients'[c].pc = "count"
               /\ DOMAIN clients'[c].filters \subseteq SchemaKeys(FilterParamsSchema)
               /\ \A k \in DOMAIN clients'[c].arg \cap SchemaKeys(FilterParamsSchema) :
                      clients'[c].filters[k] = clients'[c].arg[k]
        /\ ( /\ Calls(c, "updateProduct")
             /\ ~(DOMAIN clients'[c].arg \subseteq SchemaKeys(CreateProductSchema)) ) =>
               ~FailsWith(c, "ValidationError")
    ]_vars

\* C17: the filters getProducts hands to the repository have a page in
\* 1..10000, a limit in 1..100 (1 and 20 when omitted) and an allowed sort_by;
\* a call with a page or limit outside, or another sort_by, ends with
\* ValidationError and no query.
C17_RepositoryGetsFiltersWithinLimits ==
    \A c \in Clients :
        clients[c].op = "getProducts" =>
            LET arg == clients[c].arg
                within == /\ Get(arg, "page", 1) \in 1..PageMax
                          /\ Get(arg, "limit", LimitDefault) \in 1..LimitMax
                          /\ Get(arg, "sort_by", "created_at") \in AllowedSortFields
            IN IF within
               THEN clients[c].pc = "count" =>
                       /\ clients[c].filters.page = Get(arg, "page", 1)
                       /\ clients[c].filters.limit = Get(arg, "limit", LimitDefault)
                       /\ clients[c].filters.sort_by \in AllowedSortFields
               ELSE clients[c].pc = "done" /\ Failed(c, "ValidationError")

(***************************************************************************)
(* generateSampleData alone, by concurrent clients, with Math.random()      *)
(* picking one of two brands for each product (SpecSample).                 *)
(***************************************************************************)
BrandPicks ==
    { [category |-> Toys, brand |-> brand, adjective |-> Pro, price |-> MinPriceCents,
       stock_quantity |-> 1, rating |-> MaxRatingHundredths, review_count |-> 1] :
      brand \in {HP, LG} }

NextSample ==
    \/ Tick
    \/ \E c \in Clients :
          \/ \E params \in SampleParams : GenerateSampleDataPicking(c, params, BrandPicks)
          \/ GenerateSampleDataSave(c)
          \/ Return(c)

SpecSample == Init /\ [][NextSample]_vars

\* C18: generateSampleData with count n, on a store that holds none of the
\* SKUs it generated, adds exactly n rows, all active and with different
\* SKUs, changes no row the store had, and returns requested = n, created = n.
C18_SampleDataAddsExactlyCountRows ==
    [][\A c \in Clients :
        ( /\ clients[c].op = "generateSampleData" /\ clients[c].pc = "bulkCreate"
          /\ clients'[c].pc = "done"
          /\ \A i \in 1..Len(clients[c].products) :
                 RowsWithSku(store, clients[c].products[i].sku) = {} ) =>
            LET n == clients[c].arg.count
                added == DOMAIN store' \ DOMAIN store
            IN /\ clients'[c].ret.ok
               /\ clients'[c].ret.value.requested = n
               /\ clients'[c].ret.value.created = n
               /\ Cardinality(added) = n
               /\ \A id \in added : store'[id].is_active
               /\ \A id, other \in added : id # other => store'[id].sku # store'[other].sku
               /\ \A id \in DOMAIN store : id \in DOMAIN store' /\ store'[id] = store[id]
    ]_vars

\* a call has returned its rows, more than one, and they are what the store
\* holds
C18_Witness ==
    \E c \in Clients :
        /\ Done(c, "generateSampleData") /\ clients[c].ret.ok
        /\ clients[c].ret.value.created > 1
        /\ Cardinality(DOMAIN store) = clients[c].ret.value.created

\* C19: the SKUs generateSampleData generates differ within a call and across
\* calls, concurrent ones and ones in the same millisecond included, so that
\* no call fails on the uniqueness constraint of the sku.
C19_SampleDataNeverFailsOnUniqueConstraint ==
    \A c \in Clients :
        Done(c, "generateSampleData") => ~FailedOnUniqueConstraint(c)

(***************************************************************************)
(* Claims about what the reads see of inactive rows (Spec).                 *)
(***************************************************************************)
\* the store without its inactive rows
ActiveOnly(st) == [id \in {id \in DOMAIN st : st[id].is_active} |-> st[id]]

\* the call of client c asks for inactive rows
AsksForInactive(call) ==
    call.op = "getProducts" /\ ~Get(call.arg, "is_active", TRUE)

\* C20: a read that does not pass is_active = false (getProducts,
\* searchProducts, getProductById, getFilterOptions) returns and aggregates
\* active rows only: each of its queries answers as it would on the store
\* without the inactive rows.
C20_ReadsSeeActiveRowsOnly ==
    [][\A c \in Clients :
        /\ ( /\ Calls(c, "getProducts") \/ Calls(c, "searchProducts")
             /\ clients'[c].pc = "count"
             /\ ~AsksForInactive(clients'[c]) ) =>
               /\ \A i \in 1..Len(clients'[c].products) : clients'[c].products[i].is_active
               /\ \E result \in FindWithFilters(ActiveOnly(store), clients'[c].filters) :
                      result.products = clients'[c].products
        /\ ( /\ clients[c].op \in {"getProducts", "searchProducts"}
             /\ clients[c].pc = "count" /\ clients'[c].pc = "done"
             /\ ~AsksForInactive(clients[c]) ) =>
               /\ clients'[c].ret.ok
               /\ \A i \in 1..Len(clients'[c].ret.value.products) :
                      clients'[c].ret.value.products[i].is_active
               /\ clients'[c].ret.value.pagination.total_items
                      = Total(ActiveOnly(store), clients[c].filters)
        /\ Calls(c, "getFilterOptions") =>
               /\ clients'[c].ret.ok
               /\ clients'[c].ret.value = GetFilterOptions(ActiveOnly(store))
        /\ ( Calls(c, "getProductById") /\ clients'[c].ret.ok ) =>
               clients'[c].ret.value.is_active
    ]_vars

\* getProducts without filters has returned one product of one while the
\* store holds two rows, one of them inactive
C20_Witness ==
    \E c \in Clients :
        /\ Done(c, "getProducts") /\ clients[c].ret.ok
        /\ clients[c].arg = EmptyObject
        /\ Len(clients[c].ret.value.products) = 1
        /\ clients[c].ret.value.pagination.total_items = 1
        /\ \E id, other \in DOMAIN store : store[id].is_active /\ ~store[other].is_active

(***************************************************************************)
(* createProduct, updateProduct and generateSampleData by one client, with  *)
(* numbers at and beyond the ends of their ranges (SpecRange).              *)
(***************************************************************************)
\* product data with one number at or beyond an end of its range
RangeInputs ==
    LET base == [name |-> Widget, category |-> Tools, brand |-> Acme]
    IN { base @@ [sku |-> sku, price |-> price] :
           sku \in {SkuOf(1), SkuOf(2)}, price \in {0 - 1, 0, 1, PriceMaxCents, PriceMaxCents + 1} }
       \cup { base @@ [sku |-> SkuOf(1), price |-> 999, stock_quantity |-> n] : n \in {0 - 1, 0} }
       \cup { base @@ [sku |-> SkuOf(1), price |-> 999, rating |-> n] :
                n \in {0 - 1, 0, RatingMaxHundredths, RatingMaxHundredths + 1} }
       \cup { base @@ [sku |-> SkuOf(1), price |-> 999, review_count |-> n] : n \in {0 - 1, 0} }

\* patches with a number beyond its range
RangePatches == {[price |-> 0 - 1], [rating |-> RatingMaxHundredths + 1], [stock_quantity |-> 0]}

\* Math.random() at either end of [0, 1) for the numbers of a sample product
ExtremePicks ==
    { [category |-> Toys, brand |-> HP, adjective |-> Pro, price |-> draw[1],
       stock_quantity |-> draw[2], rating |-> draw[3], review_count |-> draw[4]] :
      draw \in { <<MinPriceCents, 1, MinRatingHundredths, 1>>,
                 <<MaxPriceCents, MaxStockQuantity, MaxRatingHundredths, MaxReviewCount>> } }

NextRange ==
    \/ \E productData \in RangeInputs : CreateProductCall(Reader, productData)
    \/ CreateProductSave(Reader)
    \/ \E id \in StoreIds, updateData \in RangePatches : UpdateProductCall(Reader, id, updateData)
    \/ \E params \in SampleParams : GenerateSampleDataPicking(Reader, params, ExtremePicks)
    \/ GenerateSampleDataSave(Reader)
    \/ Return(Reader)

SpecRange == Init /\ [][NextRange]_vars

\* the ranges of the numbers of a row or of an input, where it has them
WithinRanges(data) ==
    /\ Has(data, "price") => data.price >= 0
    /\ Has(data, "stock_quantity") => data.stock_quantity >= 0
    /\ Has(data, "rating") => data.rating >= 0 /\ data.rating <= RatingMaxHundredths
    /\ Has(data, "review_count") => data.review_count >= 0

\* C21: every stored row has price >= 0, stock_quantity >= 0, 0 <= rating <= 5
\* and review_count >= 0, whatever createProduct, updateProduct and
\* generateSampleData calls produced it; a call whose input breaks a range is
\* rejected (createProduct with ValidationError) and stores nothing.
C21_StoredNumbersWithinRanges ==
    [][/\ \A id \in DOMAIN store' : WithinRanges(store'[id])
       /\ \A c \in Clients :
             /\ ( Calls(c, "createProduct") /\ ~WithinRanges(clients'[c].arg) ) =>
                    FailsWith(c, "ValidationError") /\ store' = store
             /\ ( Calls(c, "updateProduct") /\ ~WithinRanges(clients'[c].arg) ) =>
                    /\ clients'[c].pc = "done" /\ ~clients'[c].ret.ok
                    /\ store' = store
    ]_vars

\* a createProduct with a rating above 5 has been rejected while the store
\* holds a row with rating 5
C21_Witness ==
    \E c \in Clients :
        /\ Done(c, "createProduct") /\ Failed(c, "ValidationError")
        /\ Get(clients[c].arg, "rating", 0) > RatingMaxHundredths
        /\ \E id \in DOMAIN store : store[id].rating = RatingMaxHundredths

\* /^[A-Z0-9\-\_]+$/ and the length 3 to 100 the spec gives a sku
WellFormedSku(sku) ==
    /\ Len(sku) >= SkuMin /\ Len(sku) <= TextMax100
    /\ \A i \in 1..Len(sku) :
           \/ IndexIn(UpperAlpha, sku[i]) > 0
           \/ IndexIn(DigitChars, sku[i]) > 0
           \/ sku[i] \in {"-", "_"}

\* C22: every row stored through createProduct or updateProduct has a sku of
\* 3 to 100 uppercase letters, digits, hyphens and underscores; an input sku
\* with any other character is rejected with ValidationError.
C22_StoredSkuWellFormed ==
    [][/\ \A id \in DOMAIN store' : WellFormedSku(store'[id].sku)
       /\ \A c \in Clients :
             ( /\ Calls(c, "createProduct")
               /\ Has(clients'[c].arg, "sku")
               /\ \E i \in 1..Len(clients'[c].arg.sku) :
                      /\ IndexIn(UpperAlpha, clients'[c].arg.sku[i]) = 0
                      /\ IndexIn(DigitChars, clients'[c].arg.sku[i]) = 0
                      /\ clients'[c].arg.sku[i] \notin {"-", "_"} ) =>
                 FailsWith(c, "ValidationError")
    ]_vars

\* C23: getProductById, updateProduct and deleteProduct with an identifier
\* that is no valid UUID fail with ValidationError (status 422) and do not
\* touch the store.
C23_MalformedIdIsValidationError ==
    [][\A c \in Clients :
        ( /\ \/ Calls(c, "getProductById")
             \/ Calls(c, "updateProduct")
             \/ Calls(c, "deleteProduct")
          /\ clients'[c].id \notin Ids ) =>
            /\ FailsWith(c, "ValidationError")
            /\ clients'[c].ret.error.statusCode = 422
            /\ store' = store
    ]_vars

(***************************************************************************)
(* ProductController.searchProducts on a store that nobody writes           *)
(* (SpecSearch). A request is its query string parameters, texts all.       *)
(***************************************************************************)
\* the digits a text starts with
RECURSIVE DigitPrefix(_)
DigitPrefix(s) ==
    IF s # <<>> /\ IndexIn(DigitChars, Head(s)) > 0
    THEN <<Head(s)>> \o DigitPrefix(Tail(s))
    ELSE <<>>

\* the number a text of digits denotes
RECURSIVE DigitsValue(_)
DigitsValue(s) ==
    IF s = <<>> THEN 0
    ELSE 10 * DigitsValue(SubSeq(s, 1, Len(s) - 1)) + (IndexIn(DigitChars, s[Len(s)]) - 1)

\* parseInt(req.query[key]) || fallback: NaN (no parameter, no leading digits)
\* and 0 give the fallback
ParseIntOr(query, key, fallback) ==
    IF ~Has(query, key) THEN fallback
    ELSE LET text == TrimStart(query[key])
             negative == text # <<>> /\ Head(text) = "-"
             digits == DigitPrefix(IF negative THEN Tail(text) ELSE text)
         IN IF digits = <<>> \/ DigitsValue(digits) = 0 THEN fallback
            ELSE IF negative THEN 0 - DigitsValue(digits) ELSE DigitsValue(digits)

SearchTooShortMessage == "Search query must be at least 2 characters long"

SearchQueryTooShortUntrimmed(query) ==
    ~Has(query, "q") \/ query.q = <<>> \/ Len(query.q) < 2

\* !query || query.trim().length < 2
SearchQueryTooShort(query) ==
    ~Has(query, "q") \/ query.q = <<>> \/ Len(Trim(query.q)) < 2

\* the filters searchProducts builds from the request
SearchRequestFilters(query) ==
    [page |-> ParseIntOr(query, "page", 1),
     limit |-> ParseIntOr(query, "limit", LimitDefault),
     search |-> Trim(query.q),
     sort_by |-> Get(query, "sort_by", "created_at"),
     sort_order |-> Get(query, "sort_order", Desc)]

\* the handler of GET /products/search: the 400 answer, or the call of
\* productService.getProducts and its result as the answer, or its error
\* handed to next. called lists the filters the service was called with.
SearchProductsHandler(c, query) ==
    /\ clients[c] = Idle
    /\ LET call == [op |-> "ProductController.searchProducts", pc |-> "done",
                    query |-> query]
       IN IF SearchQueryTooShort(query)
          THEN clients' = [clients EXCEPT ![c] =
                   [called |-> <<>>,
                    res |-> [status |-> 400,
                             body |-> [success |-> FALSE,
                                       message |-> SearchTooShortMessage]]] @@ call]
          ELSE \E outcome \in GetProducts(store, SearchRequestFilters(query)) :
                  clients' = [clients EXCEPT ![c] =
                      [called |-> <<SearchRequestFilters(query)>>,
                       res |-> IF outcome.ok
                               THEN [status |-> 200,
                                     body |-> [success |-> TRUE, data |-> outcome.value]]
                               ELSE [next |-> outcome.error]] @@ call]
    /\ UNCHANGED <<store, clock>>

\* query strings of search requests
SearchQueries ==
    { Prop("q", q) @@ Prop("page", page) @@ Prop("sort_by", sort_by) :
        q \in Optional({ <<>>, <<"a">>, <<" ","a"," ">>, <<" "," ">>, <<"w","i">>,
                         <<" ","w","i"," ">> }),
        page \in Optional({ <<"2">>, <<"0">>, <<"-","1">>, <<"x">> }),
        sort_by \in Optional({"price", "id"}) }

NextSearch ==
    \/ \E query \in SearchQueries : SearchProductsHandler(Reader, query)
    \/ Return(Reader)

SpecSearch == InitQuery /\ [][NextSearch]_vars

\* C24: a search request whose q is missing or shorter than 2 characters once
\* trimmed is answered with status 400 and the message that states the
\* minimum of 2, the service not being called; a longer q is handed to
\* getProducts, trimmed, as the search filter, without is_active, so that the
\* default true applies and the products answered are active rows matching
\* the term.
C24_ShortSearchQueryRefused ==
    \A c \in Clients :
        clients[c].op = "ProductController.searchProducts" =>
            LET query == clients[c].query
                res == clients[c].res
                called == clients[c].called
            IN IF ~Has(query, "q") \/ Len(Trim(query.q)) < 2
               THEN /\ Has(res, "status") /\ res.status = 400
                    /\ res.body.message = "Search query must be at least 2 characters long"
                    /\ called = <<>>
               ELSE /\ Len(called) = 1
                    /\ called[1].search = Trim(query.q)
                    /\ ~Has(called[1], "is_active")
                    /\ Validate(FilterParamsSchema, called[1]).value.is_active
                    /\ Has(res, "status") =>
                          /\ res.status = 200
                          /\ \A i \in 1..Len(res.body.data.products) :
                                LET product == res.body.data.products[i]
                                IN /\ product.is_active
                                   /\ \/ ILike(product.name, Trim(query.q))
                                      \/ ILike(product.description, Trim(query.q))
                                      \/ ILike(product.brand, Trim(query.q))

\* the request q=" a " has been refused
C24_Witness ==
    \E c \in Clients :
        /\ clients[c].op = "ProductController.searchProducts"
        /\ Has(clients[c].query, "q") /\ clients[c].query.q = <<" ","a"," ">>
        /\ clients[c].called = <<>>

(***************************************************************************)
(* ProductRepository.update and softDelete called by concurrent clients on  *)
(* a catalogue store (SpecRepo).                                            *)
(***************************************************************************)
\* isSkuExists(sku, excludeId): the count query and its answer
IsSkuExistsCall(c, sku, excludeId) ==
    /\ clients[c] = Idle
    /\ clients' = [clients EXCEPT ![c] =
           [op |-> "isSkuExists", pc |-> "done", sku |-> sku, excludeId |-> excludeId,
            ret |-> Returned(IsSkuExists(store, sku, excludeId))]]
    /\ UNCHANGED <<store, clock>>

\* patches handed to update
RepoPatches == {[is_active |-> FALSE], [price |-> 1], [sku |-> SkuOf(1), is_active |-> TRUE]}

NextRepo ==
    \/ \E c \in Clients :
          \/ \E id \in StoreIds, updateData \in RepoPatches : UpdateCall(c, id, updateData)
          \/ UpdateWrite(c)
          \/ UpdateReturn(c)
          \/ \E id \in StoreIds : SoftDeleteCall(c, id)
          \/ Return(c)

SpecRepo == InitQuery /\ [][NextRepo]_vars

\* isSkuExists alone, on every catalogue store (SpecSku)
NextSku ==
    \/ \E sku \in {SkuOf(id) : id \in Ids}, excludeId \in {NoId} \cup Ids :
          IsSkuExistsCall(Reader, sku, excludeId)
    \/ Return(Reader)

SpecSku == InitQuery /\ [][NextSku]_vars

\* C25: update(id, patch) returns null only when its existence check found
\* no active row id, and then the call has modified no row; otherwise, unless
\* it fails, it returns the updated item.
C25_UpdateReturnsNullOnlyForMissingRow ==
    [][\A c \in Clients :
        ( /\ clients'[c].op = "update" /\ clients'[c].pc = "done"
          /\ clients[c].pc # "done"
          /\ clients'[c].ret.ok ) =>
            IF clients'[c].ret.value = Null
            THEN /\ clients[c] = Idle
                 /\ FindById(store, clients'[c].id) = Null
                 /\ store' = store
            ELSE /\ clients[c].pc = "findById"
                 /\ clients'[c].ret.value.id = clients'[c].id
    ]_vars

\* C28: isSkuExists(sku, excludeId) answers true exactly when a stored row,
\* active or inactive, other than row excludeId has the sku, and leaves the
\* store as it is.
C28_IsSkuExistsCountsEveryOtherRow ==
    [][\A c \in Clients :
        Calls(c, "isSkuExists") =>
            /\ clients'[c].ret.ok
            /\ clients'[c].ret.value
                   = (RowsWithSku(store, clients'[c].sku) \ {clients'[c].excludeId} # {})
            /\ store' = store
    ]_vars

\* the answer was true, without an excluded row, while the only row with the
\* sku is inactive
C28_Witness ==
    \E c \in Clients :
        /\ Done(c, "isSkuExists") /\ clients[c].ret.value
        /\ clients[c].excludeId = NoId
        /\ \E id \in DOMAIN store :
               /\ RowsWithSku(store, clients[c].sku) = {id}
               /\ ~store[id].is_active

\* C30: however update and softDelete of one identifier interleave, update
\* writes its patch only to a row that is active at the moment of the write,
\* and an update that has written returns the updated item, not null.
C30_UpdateNeverWritesToInactiveRow ==
    [][\A c \in Clients :
        /\ ( /\ clients[c].op = "update" /\ clients[c].pc = "update"
             /\ clients'[c].pc = "findById" ) =>
               store[clients[c].id].is_active
        /\ ( /\ clients[c].op = "update" /\ clients[c].pc = "findById"
             /\ clients'[c].pc = "done" /\ clients'[c].ret.ok ) =>
               clients'[c].ret.value # Null
    ]_vars

\* C26: an update of row id with patch P changes on that row only the fields
\* P names and updated_at, and no other row; updateProduct asks whether the
\* sku is taken exactly when P names a sku, so that with a sku in P the call
\* can end before the write only by that check's refusal, and without one
\* never by it.
C26_UpdateChangesPatchedFieldsOnly ==
    [][\A c \in Clients :
        /\ ( /\ clients[c].op = "update" /\ clients[c].pc = "update"
             /\ clients'[c].pc = "findById" ) =>
               /\ \A k \in Columns \ (DOMAIN clients[c].arg \cup {"updated_at"}) :
                      store'[clients[c].id][k] = store[clients[c].id][k]
               /\ \A id \in DOMAIN store \ {clients[c].id} : store'[id] = store[id]
        /\ ( /\ Calls(c, "updateProduct")
             /\ FindById(store, clients'[c].id) # Null
             /\ clients'[c].pc = "done" ) =>
               /\ Has(clients'[c].arg, "sku")
               /\ FailsWith(c, "BadRequestError")
               /\ RowsWithSku(store, clients'[c].arg.sku) \ {clients'[c].id} # {}
    ]_vars

(***************************************************************************)
(* The four writing service operations alone, by concurrent clients         *)
(* (SpecService).                                                           *)
(***************************************************************************)
\* product data handed to createProduct, active and inactive
StatusInputs ==
    { [name |-> Widget, category |-> Tools, brand |-> Acme, price |-> 999,
       sku |-> sku, is_active |-> is_active] :
      sku \in {SkuOf(1), SkuOf(2)}, is_active \in BOOLEAN }

\* patches handed to updateProduct
StatusPatches == {[is_active |-> TRUE], [is_active |-> TRUE, sku |-> SkuOf(1)]}

NextService ==
    \/ Tick
    \/ \E c \in Clients :
          \/ \E productData \in StatusInputs : CreateProductCall(c, productData)
          \/ CreateProductSave(c)
          \/ \E id \in StoreIds, updateData \in StatusPatches :
                UpdateProductCall(c, id, updateData)
          \/ \E id \in StoreIds : DeleteProductCall(c, id)
          \/ \E params \in SampleParams : GenerateSampleDataCall(c, params)
          \/ GenerateSampleDataSave(c)
          \/ Return(c)

SpecService == Init /\ [][NextService]_vars

StoreErrors ==
    { [name |-> "ConnectionNotFoundError", message |-> "connection not found"],
      [name |-> "CannotConnectToDatabase", message |-> "cannot connect"],
      [name |-> "Error", code |-> "ECONNREFUSED", message |-> "connect ECONNREFUSED"],
      [name |-> "Error", code |-> "ENOTFOUND", message |-> "getaddrinfo ENOTFOUND"],
      UniqueViolation,
      [name |-> "QueryFailedError", code |-> "23503", message |-> "violates foreign key constraint"],
      [name |-> "QueryFailedError", code |-> "23502", message |-> "violates not-null constraint"],
      CheckViolation,
      [name |-> "Error", message |-> "timeout"] }

\* the operations and the context each hands to _handleDatabaseError
FaultSites ==
    { [operation |-> "findWithFilters", context |-> [filters |-> EmptyObject]],
      [operation |-> "findById", context |-> [productId |-> 1]],
      [operation |-> "create", context |-> [sku |-> SkuOf(1), name |-> Widget]],
      [operation |-> "update", context |-> [productId |-> 1, updateFields |-> {"price"}]],
      [operation |-> "softDelete", context |-> [productId |-> 1]],
      [operation |-> "getFilterOptions", context |-> EmptyObject],
      [operation |-> "bulkCreate", context |-> [count |-> 1]],
      [operation |-> "isSkuExists", context |-> [sku |-> SkuOf(1), excludeId |-> Null]] }

\* an operation whose own statement fails with error
QueryFault(c, site, error) ==
    /\ clients[c] = Idle
    /\ clients' = [clients EXCEPT ![c] =
           [op |-> site.operation, pc |-> "done", fault |-> error, nested |-> FALSE,
            ret |-> Thrown(HandleDatabaseError(error, site.operation, site.context))]]
    /\ UNCHANGED <<store, clock>>

\* update(id, updateData) whose findById fails with error: findById throws
\* its DatabaseError, update catches it and hands it to _handleDatabaseError
UpdateFindByIdFault(c, id, updateData, error) ==
    /\ clients[c] = Idle
    /\ clients' = [clients EXCEPT ![c] =
           [op |-> "update", pc |-> "done", fault |-> error, nested |-> TRUE,
            ret |-> Thrown(HandleDatabaseError(
                        HandleDatabaseError(error, "findById", [productId |-> id]),
                        "update",
                        [productId |-> id, updateFields |-> DOMAIN updateData]))]]
    /\ UNCHANGED <<store, clock>>

NextFault ==
    \E c \in Clients :
        \/ \E site \in FaultSites, error \in StoreErrors : QueryFault(c, site, error)
        \/ \E id \in StoreIds, updateData \in RepoPatches, error \in StoreErrors :
              UpdateFindByIdFault(c, id, updateData, error)
        \/ Return(c)

SpecFault == Init /\ [][NextFault]_vars

\* the kind the spec gives a store error
KindOfStoreError(error) ==
    IF \/ error.name \in {"ConnectionNotFoundError", "CannotConnectToDatabase"}
       \/ Get(error, "code", "") \in {"ECONNREFUSED", "ENOTFOUND"}
    THEN "connection"
    ELSE IF Get(error, "code", "") = "23505" THEN "unique"
    ELSE IF Get(error, "code", "") = "23503" THEN "foreign_key"
    ELSE IF Get(error, "code", "") = "23502" THEN "not_null"
    ELSE "generic"

\* the kind a DatabaseError states
KindOfDatabaseError(error) ==
    IF error.message = "Database connection failed" THEN "connection"
    ELSE IF Has(error.metadata, "constraint") THEN error.metadata.constraint
    ELSE "generic"

\* C27: a store error in a repository operation leaves the operation as a
\* DatabaseError whose kind (connection, unique, foreign_key, not_null,
\* generic) the store error alone fixes, whichever operation hit it, a nested
\* one included.
C27_StoreErrorFixesKind ==
    \A c \in Clients :
        ( clients[c].pc = "done" /\ Has(clients[c], "fault") ) =>
            /\ ~clients[c].ret.ok
            /\ clients[c].ret.error.name = "DatabaseError"
            /\ KindOfDatabaseError(clients[c].ret.error) = KindOfStoreError(clients[c].fault)

====
